---- MODULE Spec2Model ----
(***************************************************************************)
(* Model of the net-worth tracker: the analytics functions of              *)
(* core_logic.py (identifier generation, summary statistics, trends,       *)
(* milestones) and the NetWorthApp handlers of textual_app.py that feed    *)
(* them.  Money amounts are integers (pounds); strings that the code       *)
(* parses are sequences of one-character strings.                          *)
(***************************************************************************)
EXTENDS Integers, Sequences, FiniteSets, TLC

\* ------------------------------------------------------------------------
\* Bounds of the model
\* ------------------------------------------------------------------------
MaxIds == 2        \* longest list of existing ids handed to the generators
MaxRemLen == 2     \* longest remainder after the prefix in an existing id
MaxAchieved == 3   \* longest achieved list handed to the milestone tracker
MaxBalances == 2   \* longest balance list handed to the summary statistics
MaxHistory == 2    \* longest snapshot history handed to the summary statistics
TrendMonths == 13  \* calendar months a generated trend history may cover
MaxDays == 2       \* days the app is followed over
MaxEvents == 3     \* handler runs the app is followed over

\* ------------------------------------------------------------------------
\* Generic helpers
\* ------------------------------------------------------------------------
None == "None"

BoundedSeq(S, n) == UNION {[1..k -> S] : k \in 0..n}

Range(s) == {s[i] : i \in 1..Len(s)}

SetMax(S) == CHOOSE x \in S : \A y \in S : y <= x

SetMin(S) == CHOOSE x \in S : \A y \in S : x <= y

\* ------------------------------------------------------------------------
\* Strings as sequences of characters; Python's int() and str()
\* ------------------------------------------------------------------------
DigitChars == <<"0", "1", "2", "3", "4", "5", "6", "7", "8", "9">>

IsDigit(ch) == \E d \in 1..10 : DigitChars[d] = ch

DigitVal(ch) == (CHOOSE d \in 1..10 : DigitChars[d] = ch) - 1

StartsWith(s, p) == Len(s) >= Len(p) /\ SubSeq(s, 1, Len(p)) = p

\* str.strip() before int() parses: leading and trailing blanks go
RECURSIVE Strip(_)
Strip(s) ==
    IF s = <<>> THEN s
    ELSE IF s[1] = " " THEN Strip(Tail(s))
    ELSE IF s[Len(s)] = " " THEN Strip(SubSeq(s, 1, Len(s) - 1))
    ELSE s

Unsigned(s) == IF s # <<>> /\ s[1] \in {"-", "+"} THEN Tail(s) ELSE s

\* int(s) raises ValueError unless s is [sign] digits with single
\* underscores between digits
IntParses(s) ==
    LET u == Unsigned(Strip(s)) IN
    /\ u # <<>>
    /\ IsDigit(u[1])
    /\ IsDigit(u[Len(u)])
    /\ \A i \in 1..Len(u) : IsDigit(u[i]) \/ u[i] = "_"
    /\ \A i \in 1..(Len(u) - 1) : ~(u[i] = "_" /\ u[i + 1] = "_")

RECURSIVE DigitsValue(_, _)
DigitsValue(u, acc) ==
    IF u = <<>> THEN acc
    ELSE IF u[1] = "_" THEN DigitsValue(Tail(u), acc)
    ELSE DigitsValue(Tail(u), acc * 10 + DigitVal(u[1]))

IntValue(s) ==
    LET t == Strip(s)
        v == DigitsValue(Unsigned(t), 0)
    IN IF t[1] = "-" THEN 0 - v ELSE v

RECURSIVE NatToStr(_)
NatToStr(n) ==
    IF n < 10 THEN <<DigitChars[n + 1]>>
    ELSE NatToStr(n \div 10) \o <<DigitChars[(n % 10) + 1]>>

IntToStr(n) == IF n < 0 THEN <<"-">> \o NatToStr(0 - n) ELSE NatToStr(n)

\* ------------------------------------------------------------------------
\* core_logic.generate_unique_id and convert_data.generate_id
\* ------------------------------------------------------------------------
\* numeric_parts: int(id[len(prefix):]) of every id that starts with the
\* prefix and whose remainder parses
NumericParts(id_strings_list, prefix) ==
    {IntValue(SubSeq(id_strings_list[i], Len(prefix) + 1, Len(id_strings_list[i]))) :
        i \in {j \in 1..Len(id_strings_list) :
                 /\ StartsWith(id_strings_list[j], prefix)
                 /\ IntParses(SubSeq(id_strings_list[j], Len(prefix) + 1,
                                     Len(id_strings_list[j])))}}

generate_unique_id_off_by_one(id_strings_list, prefix) ==
    IF id_strings_list = <<>> THEN prefix \o <<"1">>
    ELSE LET numeric_parts == NumericParts(id_strings_list, prefix)
             max_val == IF numeric_parts = {} THEN 0 ELSE SetMax(numeric_parts)
         IN prefix \o IntToStr(max_val)

generate_unique_id(id_strings_list, prefix) ==
    IF id_strings_list = <<>> THEN prefix \o <<"1">>
    ELSE LET numeric_parts == NumericParts(id_strings_list, prefix)
             max_val == IF numeric_parts = {} THEN 0 ELSE SetMax(numeric_parts)
         IN prefix \o IntToStr(max_val + 1)

generate_id(existing_ids_list, prefix) ==
    IF existing_ids_list = <<>> THEN prefix \o <<"1">>
    ELSE LET numeric_parts == NumericParts(existing_ids_list, prefix)
             next_num == IF numeric_parts # {} THEN SetMax(numeric_parts) + 1 ELSE 1
         IN prefix \o IntToStr(next_num)

\* ------------------------------------------------------------------------
\* Optional values and exact fractions
\* ------------------------------------------------------------------------
\* Python's None / a present value, kept comparable with each other
Absent == <<>>
Some(v) == <<v>>
IsPresent(o) == o # <<>>
Val(o) == o[1]

Abs(x) == IF x < 0 THEN 0 - x ELSE x

RECURSIVE Gcd(_, _)
Gcd(a, b) == IF b = 0 THEN a ELSE Gcd(b, a % b)

\* the quotient n / d of a float division, d > 0, kept exact as the fraction
\* <<n, d>> in lowest terms
Frac(n, d) == LET g == Gcd(Abs(n), d) IN <<n \div g, d \div g>>
FracEq(a, b) == a = b
FracLess(a, b) == a[1] * b[2] < b[1] * a[2]
FracLeq(a, b) == a[1] * b[2] <= b[1] * a[2]
\* max(0, min(100, percentage))
Clamp0To100(p) ==
    LET lo == IF FracLess(Frac(100, 1), p) THEN Frac(100, 1) ELSE p
    IN IF FracLess(Frac(0, 1), lo) THEN lo ELSE Frac(0, 1)

\* ------------------------------------------------------------------------
\* core_logic.update_and_get_milestone_progress
\* ------------------------------------------------------------------------
STANDARD_MILESTONES ==
    << [value |-> 0, name |-> "Debt Free"],
       [value |-> 1000, name |-> "1k"],
       [value |-> 10000, name |-> "10k"],
       [value |-> 25000, name |-> "25k"],
       [value |-> 50000, name |-> "50k"],
       [value |-> 100000, name |-> "100k"],
       [value |-> 250000, name |-> "250k"],
       [value |-> 500000, name |-> "500k"],
       [value |-> 750000, name |-> "750k"],
       [value |-> 1000000, name |-> "1M"] >>

\* sorted(seq, key=value): stable, ascending
RECURSIVE InsertByValue(_, _)
InsertByValue(sorted, m) ==
    IF sorted = <<>> THEN <<m>>
    ELSE IF sorted[Len(sorted)].value <= m.value THEN Append(sorted, m)
    ELSE Append(InsertByValue(SubSeq(sorted, 1, Len(sorted) - 1), m),
                sorted[Len(sorted)])

RECURSIVE SortedByValue(_)
SortedByValue(defs) ==
    IF defs = <<>> THEN <<>>
    ELSE InsertByValue(SortedByValue(SubSeq(defs, 1, Len(defs) - 1)), defs[Len(defs)])

\* sorted(list(set(values)), reverse=True)
RECURSIVE SetToDescSeq(_)
SetToDescSeq(S) ==
    IF S = {} THEN <<>>
    ELSE <<SetMax(S)>> \o SetToDescSeq(S \ {SetMax(S)})

RECURSIVE SetToAscSeq(_)
SetToAscSeq(S) ==
    IF S = {} THEN <<>>
    ELSE <<SetMin(S)>> \o SetToAscSeq(S \ {SetMin(S)})

NewlyAchieved_strictly_above(current_net_worth, achieved_milestones_values, sorted_standard_milestones) ==
    LET reached(milestone) ==
            /\ current_net_worth > milestone.value
            /\ milestone.value \notin Range(achieved_milestones_values)
        kept == SelectSeq(sorted_standard_milestones, reached)
    IN [i \in 1..Len(kept) |-> kept[i].value]

\* lines 109-113: the thresholds reached now and not in the list passed
NewlyAchieved(current_net_worth, achieved_milestones_values, sorted_standard_milestones) ==
    LET reached(milestone) ==
            /\ current_net_worth >= milestone.value
            /\ milestone.value \notin Range(achieved_milestones_values)
        kept == SelectSeq(sorted_standard_milestones, reached)
    IN [i \in 1..Len(kept) |-> kept[i].value]

FirstLoopIndex_above_current(current_net_worth, achieved_milestones_values, newly, sorted_standard_milestones) ==
    LET hits == {i \in 1..Len(sorted_standard_milestones) :
                    current_net_worth < sorted_standard_milestones[i].value}
    IN IF hits = {} THEN 0 ELSE SetMin(hits)

\* lines 115-131: index of the milestone the first loop breaks at, 0 if none
FirstLoopIndex(current_net_worth, achieved_milestones_values, newly, sorted_standard_milestones) ==
    LET hits == {i \in 1..Len(sorted_standard_milestones) :
                    /\ sorted_standard_milestones[i].value
                           \notin Range(achieved_milestones_values)
                    /\ sorted_standard_milestones[i].value \notin Range(newly)
                    /\ current_net_worth < sorted_standard_milestones[i].value}
    IN IF hits = {} THEN 0 ELSE SetMin(hits)

\* lines 133-143: index the second loop breaks at, 0 if none
SecondLoopIndex(current_net_worth, achieved_milestones_values, newly, sorted_standard_milestones) ==
    LET temp_all_achieved == achieved_milestones_values \o newly
        hits == {i \in 1..Len(sorted_standard_milestones) :
                    /\ sorted_standard_milestones[i].value \notin Range(temp_all_achieved)
                    /\ current_net_worth < sorted_standard_milestones[i].value}
    IN IF hits = {} THEN 0 ELSE SetMin(hits)

PreviousMilestoneForProgress_ascending(achieved_milestones_values, newly, next_milestone_value) ==
    LET all_currently_achieved_values ==
            SetToAscSeq(Range(achieved_milestones_values \o newly))
        below == {i \in 1..Len(all_currently_achieved_values) :
                     all_currently_achieved_values[i] < next_milestone_value}
    IN IF below = {} THEN 0 ELSE all_currently_achieved_values[SetMin(below)]

\* lines 161-169: the highest achieved value below the next milestone, else 0
PreviousMilestoneForProgress(achieved_milestones_values, newly, next_milestone_value) ==
    LET all_currently_achieved_values ==
            SetToDescSeq(Range(achieved_milestones_values \o newly))
        below == {i \in 1..Len(all_currently_achieved_values) :
                     all_currently_achieved_values[i] < next_milestone_value}
    IN IF below = {} THEN 0 ELSE all_currently_achieved_values[SetMin(below)]

\* lines 153-205
ProgressPercent(current_net_worth, achieved_milestones_values, newly, next_milestone_value, all_milestones_achieved) ==
    IF IsPresent(next_milestone_value) /\ ~all_milestones_achieved
    THEN IF Val(next_milestone_value) = 0
         THEN IF current_net_worth >= 0 THEN Frac(100, 1) ELSE Frac(0, 1)
         ELSE LET target_value == Val(next_milestone_value)
                  base_value == PreviousMilestoneForProgress(
                                    achieved_milestones_values, newly, target_value)
                  current_progress_value == current_net_worth - base_value
                  total_progress_needed == target_value - base_value
              IN IF total_progress_needed > 0
                 THEN Clamp0To100(Frac(current_progress_value * 100,
                                       total_progress_needed))
                 ELSE IF current_net_worth >= target_value THEN Frac(100, 1)
                 ELSE Frac(0, 1)
    ELSE IF all_milestones_achieved THEN Frac(100, 1)
    ELSE Frac(0, 1)

\* The whole function: its result dictionary, and the list argument as the
\* call leaves it (the code builds new lists and never writes to it)
update_and_get_milestone_progress(current_net_worth, achieved_milestones_values, standard_milestones_definition) ==
    LET sorted_standard_milestones == SortedByValue(standard_milestones_definition)
        n == Len(sorted_standard_milestones)
        newly == NewlyAchieved(current_net_worth, achieved_milestones_values,
                               sorted_standard_milestones)
        first == FirstLoopIndex(current_net_worth, achieved_milestones_values,
                                newly, sorted_standard_milestones)
        second == IF first = 0 /\ newly # <<>>
                  THEN SecondLoopIndex(current_net_worth, achieved_milestones_values,
                                       newly, sorted_standard_milestones)
                  ELSE 0
        \* line 141 assigns milestone_val, left over from the first loop, which
        \* ran to the last milestone
        next_milestone_value ==
            IF first # 0 THEN Some(sorted_standard_milestones[first].value)
            ELSE IF second # 0 THEN Some(sorted_standard_milestones[n].value)
            ELSE Absent
        next_milestone_found == first # 0 \/ second # 0
        highest_defined_milestone ==
            IF n > 0 THEN sorted_standard_milestones[n].value ELSE 0
        all_milestones_achieved ==
            /\ ~next_milestone_found
            /\ current_net_worth >= highest_defined_milestone
            /\ \A i \in 1..n :
                  sorted_standard_milestones[i].value <= current_net_worth
                      => \/ sorted_standard_milestones[i].value
                               \in Range(achieved_milestones_values)
                         \/ sorted_standard_milestones[i].value \in Range(newly)
        next_milestone_name ==
            IF first # 0 THEN sorted_standard_milestones[first].name
            ELSE IF second # 0 THEN sorted_standard_milestones[second].name
            ELSE IF all_milestones_achieved THEN "All Defined Milestones Achieved!"
            ELSE "N/A"
    IN [result |->
            [next_milestone_name |-> next_milestone_name,
             next_milestone_value |-> next_milestone_value,
             progress_percent |->
                 ProgressPercent(current_net_worth, achieved_milestones_values, newly,
                                 next_milestone_value, all_milestones_achieved),
             newly_achieved_milestones |-> newly,
             all_milestones_achieved |-> all_milestones_achieved],
        achieved_milestones_values |-> achieved_milestones_values]

\* ------------------------------------------------------------------------
\* Net worth of a list of balance entries
\* ------------------------------------------------------------------------
\* core_logic.get_net_worth_for_snapshot: every balance entry counts; the
\* financial_items argument is not read
RECURSIVE SumBalancesFrom(_, _, _)
SumBalancesFrom(snapshot_balances, i, net_worth) ==
    IF i > Len(snapshot_balances) THEN net_worth
    ELSE SumBalancesFrom(snapshot_balances, i + 1, net_worth + snapshot_balances[i].balance)

get_net_worth_for_snapshot(snapshot_balances, financial_items) ==
    SumBalancesFrom(snapshot_balances, 1, 0)

\* positive balances and negative balances summed apart, then added
\* (core_logic lines 373-382, textual_app lines 394-402)
RECURSIVE SignedSplitSumFrom(_, _, _, _)
SignedSplitSumFrom(balances, i, total_assets, total_debts) ==
    IF i > Len(balances) THEN total_assets + total_debts
    ELSE IF balances[i].balance > 0
    THEN SignedSplitSumFrom(balances, i + 1, total_assets + balances[i].balance, total_debts)
    ELSE IF balances[i].balance < 0
    THEN SignedSplitSumFrom(balances, i + 1, total_assets, total_debts + balances[i].balance)
    ELSE SignedSplitSumFrom(balances, i + 1, total_assets, total_debts)

SignedSplitSum(balances) == SignedSplitSumFrom(balances, 1, 0, 0)

\* textual_app.update_dashboard lines 391-402: the net worth handed to the
\* milestone tracker and the goal projector
DashboardCurrentNetWorth(current_snapshot_balances, financial_items) ==
    IF financial_items # <<>> THEN SignedSplitSum(current_snapshot_balances) ELSE 0

\* ------------------------------------------------------------------------
\* core_logic.calculate_summary_stats
\* ------------------------------------------------------------------------
\* {x['id']: x for x in seq}.get(id): the last entry with that id, 0 if none
LookupById(seq, id) ==
    LET hits == {i \in 1..Len(seq) : seq[i].id = id}
    IN IF hits = {} THEN 0 ELSE SetMax(hits)

\* the name a balance's category is counted under (lines 342-344)
CategoryNameOf(item_details, categories_list) ==
    LET c == LookupById(categories_list, item_details.category_id)
    IN IF c = 0 THEN "Invalid Category" ELSE categories_list[c].name

\* category_totals[name] += balance, the dictionary kept in insertion order
AddToCategoryTotals(category_totals, name, balance) ==
    IF \E k \in 1..Len(category_totals) : category_totals[k].name = name
    THEN [k \in 1..Len(category_totals) |->
             IF category_totals[k].name = name
             THEN [name |-> name, value |-> category_totals[k].value + balance]
             ELSE category_totals[k]]
    ELSE Append(category_totals, [name |-> name, value |-> balance])

\* lines 326-349: one balance entry added to the running totals; an entry
\* whose item_id is not the id of a financial item is skipped
AccumulateEntry(acc, balance_entry, financial_items, categories_list) ==
    LET balance == balance_entry.balance
        k == LookupById(financial_items, balance_entry.item_id)
    IN IF k = 0 THEN acc
       ELSE LET liquid == financial_items[k].liquid
                name == CategoryNameOf(financial_items[k], categories_list)
            IN [total_assets_value |-> acc.total_assets_value + (IF balance > 0 THEN balance ELSE 0),
                total_debts_value |-> acc.total_debts_value + (IF balance < 0 THEN balance ELSE 0),
                liquid_assets_value |-> acc.liquid_assets_value + (IF balance > 0 /\ liquid THEN balance ELSE 0),
                non_liquid_assets_value |-> acc.non_liquid_assets_value + (IF balance > 0 /\ ~liquid THEN balance ELSE 0),
                category_totals |-> AddToCategoryTotals(acc.category_totals, name, balance)]

RECURSIVE AccumulateFrom(_, _, _, _, _)
AccumulateFrom(current_snapshot_balances, i, acc, financial_items, categories_list) ==
    IF i > Len(current_snapshot_balances) THEN acc
    ELSE AccumulateFrom(current_snapshot_balances, i + 1,
                        AccumulateEntry(acc, current_snapshot_balances[i], financial_items, categories_list),
                        financial_items, categories_list)

\* lines 317-349: the loop over the current balances
AccumulateBalances(current_snapshot_balances, financial_items, categories_list) ==
    AccumulateFrom(current_snapshot_balances, 1,
                   [total_assets_value |-> 0, total_debts_value |-> 0,
                    liquid_assets_value |-> 0, non_liquid_assets_value |-> 0,
                    category_totals |-> <<>>],
                   financial_items, categories_list)

\* sorted(pairs, key=value, reverse=True): descending, equal values keep
\* their order
RECURSIVE InsertDescending(_, _)
InsertDescending(sorted, e) ==
    IF sorted = <<>> THEN <<e>>
    ELSE IF sorted[Len(sorted)].value >= e.value THEN Append(sorted, e)
    ELSE Append(InsertDescending(SubSeq(sorted, 1, Len(sorted) - 1), e),
                sorted[Len(sorted)])

RECURSIVE SortedDescending(_)
SortedDescending(pairs) ==
    IF pairs = <<>> THEN <<>>
    ELSE InsertDescending(SortedDescending(SubSeq(pairs, 1, Len(pairs) - 1)),
                          pairs[Len(pairs)])

\* lines 353-357
TopCategories(category_totals) ==
    LET positive == SelectSeq(category_totals, LAMBDA e : e.value > 0)
        ordered == SortedDescending(positive)
    IN SubSeq(ordered, 1, IF Len(ordered) < 3 THEN Len(ordered) ELSE 3)

\* float('inf') * (1 or -1): the marker of an undefined percentage
Infinite(sign) == <<sign, 0>>

ChangePercentage_zero_without_previous_worth(change_value, previous_net_worth, net_worth) ==
    IF previous_net_worth # 0
    THEN Frac(change_value * 100, Abs(previous_net_worth))
    ELSE Frac(0, 1)

\* lines 365 and 387-390
ChangePercentage(change_value, previous_net_worth, net_worth) ==
    IF previous_net_worth # 0
    THEN Frac(change_value * 100, Abs(previous_net_worth))
    ELSE IF net_worth # 0
    THEN Infinite(IF net_worth > 0 THEN 1 ELSE -1)
    ELSE Frac(0, 1)

\* lines 364-390: the change against all_snapshots[1]
ChangeSincePrevious(net_worth, all_snapshots) ==
    IF Len(all_snapshots) > 1
    THEN LET previous_net_worth == SignedSplitSum(all_snapshots[2].balances)
             change_value == net_worth - previous_net_worth
         IN [has_previous_data |-> TRUE,
             change_value |-> change_value,
             change_percentage |->
                 ChangePercentage(change_value, previous_net_worth, net_worth)]
    ELSE [has_previous_data |-> FALSE, change_value |-> 0,
          change_percentage |-> Frac(0, 1)]

NetWorthOfTotals_debts_subtracted(totals) ==
    totals.total_assets_value - totals.total_debts_value

LiquidPercentage_full_without_assets(totals) ==
    IF totals.total_assets_value > 0
    THEN Frac(totals.liquid_assets_value * 100, totals.total_assets_value)
    ELSE Frac(100, 1)

\* lines 359-362
LiquidPercentage(totals) ==
    IF totals.total_assets_value > 0
    THEN Frac(totals.liquid_assets_value * 100, totals.total_assets_value)
    ELSE Frac(0, 1)

\* line 351
NetWorthOfTotals(totals) ==
    totals.total_assets_value + totals.total_debts_value

calculate_summary_stats(current_snapshot_balances, financial_items, all_snapshots, categories_list) ==
    LET totals == AccumulateBalances(current_snapshot_balances, financial_items, categories_list)
        net_worth == NetWorthOfTotals(totals)
        change == ChangeSincePrevious(net_worth, all_snapshots)
    IN [net_worth |-> net_worth,
        total_assets_value |-> totals.total_assets_value,
        total_debts_value |-> totals.total_debts_value,
        liquid_assets_value |-> totals.liquid_assets_value,
        non_liquid_assets_value |-> totals.non_liquid_assets_value,
        liquid_percentage |-> LiquidPercentage(totals),
        asset_count |-> Len(current_snapshot_balances),
        category_count |-> Cardinality({totals.category_totals[k].name :
                                           k \in 1..Len(totals.category_totals)}),
        top_categories |-> TopCategories(totals.category_totals),
        change_value |-> change.change_value,
        change_percentage |-> change.change_percentage,
        has_previous_data |-> change.has_previous_data]

\* ------------------------------------------------------------------------
\* Dates: 'YYYY-MM-DD' is the number YYYYMMDD, which orders as the string
\* does; 0 is a missing or empty date
\* ------------------------------------------------------------------------
YearOf(date) == date \div 10000
MonthOf(date) == (date \div 100) % 100
DayOf(date) == date % 100

IsLeapYear(y) == (y % 4 = 0 /\ y % 100 # 0) \/ y % 400 = 0

DaysInMonth(y, m) ==
    IF m \in {4, 6, 9, 11} THEN 30
    ELSE IF m = 2 THEN (IF IsLeapYear(y) THEN 29 ELSE 28)
    ELSE 31

\* datetime.strptime(s, '%Y-%m-%d') succeeds
DateParses(date) ==
    /\ YearOf(date) \in 1..9999
    /\ MonthOf(date) \in 1..12
    /\ DayOf(date) \in 1..DaysInMonth(YearOf(date), MonthOf(date))

\* strftime('%Y-%m'): the number YYYYMM
MonthYearKey(date) == date \div 100

\* ------------------------------------------------------------------------
\* core_logic.calculate_enhanced_trends
\* ------------------------------------------------------------------------
HasMonth(monthly_net_worths, key) ==
    \E k \in 1..Len(monthly_net_worths) : monthly_net_worths[k].month = key

RecordSnapshot_last_wins(monthly_net_worths, snapshot, financial_items) ==
    LET key == MonthYearKey(snapshot.date)
        entry == [month |-> key,
                  net_worth |-> get_net_worth_for_snapshot(snapshot.balances, financial_items)]
    IN IF snapshot.date = 0 \/ ~DateParses(snapshot.date) THEN monthly_net_worths
       ELSE IF HasMonth(monthly_net_worths, key)
       THEN [k \in 1..Len(monthly_net_worths) |->
                IF monthly_net_worths[k].month = key THEN entry ELSE monthly_net_worths[k]]
       ELSE Append(monthly_net_worths, entry)

\* lines 48-59, one pass of the loop: a snapshot without a date or with one
\* that does not parse is skipped, a month already recorded is left alone
RecordSnapshot(monthly_net_worths, snapshot, financial_items) ==
    LET key == MonthYearKey(snapshot.date) IN
    IF snapshot.date = 0 \/ ~DateParses(snapshot.date) THEN monthly_net_worths
    ELSE IF HasMonth(monthly_net_worths, key) THEN monthly_net_worths
    ELSE Append(monthly_net_worths,
                [month |-> key,
                 net_worth |-> get_net_worth_for_snapshot(snapshot.balances, financial_items)])

RECURSIVE MonthlyNetWorthsFrom(_, _, _, _)
MonthlyNetWorthsFrom(snapshots, i, monthly_net_worths, financial_items) ==
    IF i > Len(snapshots) THEN monthly_net_worths
    ELSE MonthlyNetWorthsFrom(snapshots, i + 1,
                              RecordSnapshot(monthly_net_worths, snapshots[i], financial_items),
                              financial_items)

\* lines 47-59: monthly_net_worths, one entry per month in the order the
\* months are first met
MonthlyNetWorths(snapshots, financial_items) ==
    MonthlyNetWorthsFrom(snapshots, 1, <<>>, financial_items)

\* monthly_net_worths[key]
MonthlyAt(monthly_net_worths, key) ==
    monthly_net_worths[CHOOSE k \in 1..Len(monthly_net_worths) :
                           monthly_net_worths[k].month = key].net_worth

\* line 64: sorted(monthly_net_worths.keys(), reverse=True)
SortedMonths(monthly_net_worths) ==
    SetToDescSeq({monthly_net_worths[k].month : k \in 1..Len(monthly_net_worths)})

\* lines 69-80
AverageMonthlyChange(monthly_net_worths, num_months) ==
    LET sorted_months == SortedMonths(monthly_net_worths) IN
    IF Len(sorted_months) < num_months + 1 THEN Absent
    ELSE LET current_period_end_nw == MonthlyAt(monthly_net_worths, sorted_months[1])
             period_start_nw == MonthlyAt(monthly_net_worths, sorted_months[num_months + 1])
         IN Some(Frac(current_period_end_nw - period_start_nw, num_months))

NoTrends ==
    [avg_3m_raw |-> Absent, avg_6m_raw |-> Absent, avg_12m_raw |-> Absent,
     current_month_net_worth |-> Absent,
     oldest_available_net_worth_12m |-> Absent]

\* lines 61-92: the result built from monthly_net_worths
TrendsFromMonthly(monthly_net_worths) ==
    IF monthly_net_worths = <<>> THEN NoTrends
    ELSE LET sorted_months == SortedMonths(monthly_net_worths) IN
         [avg_3m_raw |-> AverageMonthlyChange(monthly_net_worths, 3),
          avg_6m_raw |-> AverageMonthlyChange(monthly_net_worths, 6),
          avg_12m_raw |-> AverageMonthlyChange(monthly_net_worths, 12),
          current_month_net_worth |->
              Some(MonthlyAt(monthly_net_worths, sorted_months[1])),
          oldest_available_net_worth_12m |->
              IF Len(sorted_months) >= 12 + 1
              THEN Some(MonthlyAt(monthly_net_worths, sorted_months[13]))
              ELSE Absent]

calculate_enhanced_trends(snapshots, financial_items) ==
    IF snapshots = <<>> \/ financial_items = <<>> THEN NoTrends
    ELSE TrendsFromMonthly(MonthlyNetWorths(snapshots, financial_items))

\* ------------------------------------------------------------------------
\* core_logic.calculate_goal_projection
\* ------------------------------------------------------------------------
\* round(x, 1) of a positive quotient, as a number of tenths: the nearest
\* tenth, an exact half going to the even one
RoundToTenths(x) ==
    LET scaled == 10 * x[1]
        lower == scaled \div x[2]
        twice_rest == 2 * (scaled % x[2])
    IN IF twice_rest < x[2] THEN lower
       ELSE IF twice_rest > x[2] THEN lower + 1
       ELSE IF lower % 2 = 0 THEN lower ELSE lower + 1

\* lines 234-237
PeriodLabel(period_key) ==
    IF period_key = "avg_3m_raw" THEN "3M Avg"
    ELSE IF period_key = "avg_6m_raw" THEN "6M Avg"
    ELSE IF period_key = "avg_12m_raw" THEN "12M Avg"
    ELSE "Unknown Trend"

\* lines 243-256: the words of the duration, joined by spaces in the code
TimeToGoalStr(months_to_goal_float) ==
    LET whole == months_to_goal_float[1] \div months_to_goal_float[2]
        years == whole \div 12
        remaining_months == whole % 12
        year_part == IF years > 0
                     THEN <<ToString(years), IF years > 1 THEN "years" ELSE "year">>
                     ELSE <<>>
        month_part == IF remaining_months > 0
                      THEN <<ToString(remaining_months),
                             IF remaining_months > 1 THEN "months" ELSE "month">>
                      ELSE <<>>
    IN IF year_part = <<>> /\ month_part = <<>> THEN <<"<1 month">>
       ELSE IF year_part = <<>> THEN <<"Approx.">> \o month_part
       ELSE IF month_part = <<>> THEN <<"Approx.">> \o year_part
       ELSE <<"Approx.">> \o year_part \o <<"and">> \o month_part

\* lines 241-262: the projection for one trend period
ProjectionFor(period_key, avg_monthly_change, target_nw, current_net_worth) ==
    LET months_to_goal_float ==
            Frac((target_nw - current_net_worth) * avg_monthly_change[2],
                 avg_monthly_change[1])
    IN [period_label |-> PeriodLabel(period_key),
        time_to_goal_str |-> TimeToGoalStr(months_to_goal_float),
        raw_months |-> RoundToTenths(months_to_goal_float)]

\* line 240: avg_monthly_change is not None and avg_monthly_change > 0
IsPositiveAverage(avg_monthly_change) ==
    IsPresent(avg_monthly_change) /\ Val(avg_monthly_change)[1] > 0

\* lines 233-263: one projection per entry of trends_raw whose value is a
\* number above 0, in the order of the dictionary
RECURSIVE ProjectionsFrom(_, _, _, _, _)
ProjectionsFrom(trends_raw, i, individual_projections, target_nw, current_net_worth) ==
    IF i > Len(trends_raw) THEN individual_projections
    ELSE LET avg_monthly_change == trends_raw[i].value IN
         ProjectionsFrom(trends_raw, i + 1,
             IF IsPositiveAverage(avg_monthly_change)
             THEN Append(individual_projections,
                         ProjectionFor(trends_raw[i].key, Val(avg_monthly_change),
                                       target_nw, current_net_worth))
             ELSE individual_projections,
             target_nw, current_net_worth)

\* list.sort(key=raw_months): ascending, equal keys keep their order
RECURSIVE InsertByRawMonths(_, _)
InsertByRawMonths(sorted, p) ==
    IF sorted = <<>> THEN <<p>>
    ELSE IF sorted[Len(sorted)].raw_months <= p.raw_months THEN Append(sorted, p)
    ELSE Append(InsertByRawMonths(SubSeq(sorted, 1, Len(sorted) - 1), p),
                sorted[Len(sorted)])

RECURSIVE SortByRawMonths(_)
SortByRawMonths(projections) ==
    IF projections = <<>> THEN <<>>
    ELSE InsertByRawMonths(SortByRawMonths(SubSeq(projections, 1, Len(projections) - 1)),
                           projections[Len(projections)])

\* lines 214-219; the display string of the target is kept as the target
base_result ==
    [target_net_worth_display |-> Absent,
     goal_already_reached |-> FALSE,
     individual_projections |-> <<>>,
     overall_status_message |-> "Financial goal not set."]

GoalReached_strictly_above(current_net_worth, target_nw) ==
    current_net_worth > target_nw

\* line 227
GoalReached(current_net_worth, target_nw) ==
    current_net_worth >= target_nw

\* financial_goal is None, the empty dictionary or a dictionary; its
\* target_net_worth is Absent when the key is missing or holds None
calculate_goal_projection(financial_goal, current_net_worth, trends_raw) ==
    IF ~IsPresent(financial_goal) \/ ~IsPresent(Val(financial_goal).target_net_worth)
    THEN base_result
    ELSE LET target_nw == Val(Val(financial_goal).target_net_worth)
             shown == [base_result EXCEPT !.target_net_worth_display = Some(target_nw)]
             projections == ProjectionsFrom(trends_raw, 1, <<>>, target_nw,
                                            current_net_worth)
         IN IF GoalReached(current_net_worth, target_nw)
            THEN [shown EXCEPT !.goal_already_reached = TRUE,
                               !.overall_status_message = "Goal already reached!"]
            ELSE IF projections # <<>>
            THEN [shown EXCEPT
                    !.individual_projections = SortByRawMonths(projections),
                    !.overall_status_message = "See individual trend projections."]
            ELSE IF \A i \in 1..Len(trends_raw) : ~IsPresent(trends_raw[i].value)
            THEN [shown EXCEPT !.overall_status_message =
                                   "Projection N/A (insufficient trend data)."]
            ELSE [shown EXCEPT !.overall_status_message =
                                   "Projection N/A (trends are zero or negative)."]

\* ------------------------------------------------------------------------
\* asset_utils.guess_category; names and keywords are sequences of characters
\* ------------------------------------------------------------------------
UpperCaseLetters ==
    <<"A", "B", "C", "D", "E", "F", "G", "H", "I", "J", "K", "L", "M",
      "N", "O", "P", "Q", "R", "S", "T", "U", "V", "W", "X", "Y", "Z">>
LowerCaseLetters ==
    <<"a", "b", "c", "d", "e", "f", "g", "h", "i", "j", "k", "l", "m",
      "n", "o", "p", "q", "r", "s", "t", "u", "v", "w", "x", "y", "z">>

\* str.lower of one character and of a string
LowerChar(ch) ==
    IF \E i \in 1..26 : UpperCaseLetters[i] = ch
    THEN LowerCaseLetters[CHOOSE i \in 1..26 : UpperCaseLetters[i] = ch]
    ELSE ch
Lower(s) == [i \in 1..Len(s) |-> LowerChar(s[i])]

\* sub in s
IsSubstring(sub, s) ==
    \E k \in 0..(Len(s) - Len(sub)) : SubSeq(s, k + 1, k + Len(sub)) = sub

\* line 116: one of the category's keywords, lower-cased, is in the name
HasKeywordIn(category, item_name_lower) ==
    \E k \in 1..Len(category.keywords) :
        IsSubstring(Lower(category.keywords[k]), item_name_lower)

\* lines 114-121: the id of the first category from position i on with such
\* a keyword, None when there is none
RECURSIVE GuessFrom(_, _, _)
GuessFrom(item_name_lower, categories_list, i) ==
    IF i > Len(categories_list) THEN Absent
    ELSE IF HasKeywordIn(categories_list[i], item_name_lower)
    THEN Some(categories_list[i].id)
    ELSE GuessFrom(item_name_lower, categories_list, i + 1)

\* guess_category with the name compared as it was typed (line 112 left out)
guess_category_without_lower(item_name, categories_list) ==
    GuessFrom(item_name, categories_list, 1)

\* asset_utils.guess_category
guess_category(item_name, categories_list) ==
    GuessFrom(Lower(item_name), categories_list, 1)

\* ------------------------------------------------------------------------
\* Items and categories the inputs are built from
\* ------------------------------------------------------------------------
\* asset_utils.get_default_categories: _DEFAULT_CATEGORY_DATA in order, ids
\* cat_1 .. cat_11 from generate_unique_id
DefaultCategories ==
    << [id |-> "cat_1", name |-> "Property",
        keywords |-> <<"house", "property", "flat", "apartment", "land">>],
       [id |-> "cat_2", name |-> "Pension", keywords |-> <<"pension", "sipp", "retirement">>],
       [id |-> "cat_3", name |-> "ISA", keywords |-> <<"isa", "ssisa">>],
       [id |-> "cat_4", name |-> "Savings",
        keywords |-> <<"savings", "premium bonds", "saver", "saving">>],
       [id |-> "cat_5", name |-> "Current Account", keywords |-> <<"current", "checking">>],
       [id |-> "cat_6", name |-> "Investment",
        keywords |-> <<"shares", "stocks", "investment", "fund", "gia">>],
       [id |-> "cat_7", name |-> "Mortgage", keywords |-> <<"mortgage">>],
       [id |-> "cat_8", name |-> "Loan",
        keywords |-> <<"loan", "car finance", "personal loan">>],
       [id |-> "cat_9", name |-> "Credit Card", keywords |-> <<"credit", "cc">>],
       [id |-> "cat_10", name |-> "Business", keywords |-> <<"business">>],
       [id |-> "cat_11", name |-> "Other", keywords |-> <<>>] >>

ItemA ==
    [id |-> "item_a", name |-> "Savings account", category_id |-> "cat_4",
     liquid |-> TRUE, type |-> "asset", target_balance |-> Absent]

ItemB ==
    [id |-> "item_b", name |-> "Mortgage", category_id |-> "cat_7",
     liquid |-> FALSE, type |-> "liability", target_balance |-> Absent]

Balance(item_id, balance) == [item_id |-> item_id, balance |-> balance]

Snapshot(date, balances) == [date |-> date, balances |-> balances]

\* ------------------------------------------------------------------------
\* textual_app.NetWorthApp: the attributes of the app (self), the files it
\* reads and writes, and its handlers
\* ------------------------------------------------------------------------
\* file paths: the stem and the suffix of the name
DATA_FILENAME == [stem |-> "net_worth_refactored", suffix |-> ".json"]
APP_CONFIG_FILENAME == [stem |-> "app_config", suffix |-> ".json"]
OtherDataFile == [stem |-> "other", suffix |-> ".json"]
NotesFile == [stem |-> "notes", suffix |-> ".txt"]
DataPaths == {DATA_FILENAME, OtherDataFile, NotesFile}

\* file_path.lower().endswith(".json")
EndsWithJson(file_path) == file_path.suffix \in {".json", ".JSON", ".Json"}

\* strftime("%Y-%m-%d") of a day
DateOf(year, month, day) == year * 10000 + month * 100 + day

\* the first day of a run, and the date of an older saved snapshot
FirstToday == DateOf(2024, 1, 10)
EarlierDate == DateOf(2024, 1, 5)

\* the five components kept in a data file
Document(categories, financial_items, snapshots, achieved_milestones, financial_goal) ==
    [categories |-> categories, financial_items |-> financial_items,
     snapshots |-> snapshots, achieved_milestones |-> achieved_milestones,
     financial_goal |-> financial_goal]

\* load_historical_data's default_return
default_return == Document(<<>>, <<>>, <<>>, <<>>, Absent)

\* the keys of the JSON object in a data file; lines 21-23 require the first
\* three
RequiredKeys == {"categories", "financial_items", "snapshots"}
DocumentKeys == RequiredKeys \cup {"achieved_milestones", "financial_goal"}

\* the JSON object holding the given keys of a document; a key it does not
\* hold has no value
ObjectOf(keys, document) ==
    Document(IF "categories" \in keys THEN document.categories ELSE <<>>,
             IF "financial_items" \in keys THEN document.financial_items ELSE <<>>,
             IF "snapshots" \in keys THEN document.snapshots ELSE <<>>,
             IF "achieved_milestones" \in keys THEN document.achieved_milestones ELSE <<>>,
             IF "financial_goal" \in keys THEN document.financial_goal ELSE Absent)

\* what a path holds: nothing, text that is not JSON, JSON that is not an
\* object (the legacy format is a list of records), or a JSON object with
\* some of the document's keys
MissingFile == [kind |-> "missing", keys |-> {}, data |-> default_return]
CorruptFile == [kind |-> "corrupt", keys |-> {}, data |-> default_return]
LegacyListFile == [kind |-> "list", keys |-> {}, data |-> default_return]
ObjectFile(keys, document) ==
    [kind |-> "object", keys |-> keys, data |-> ObjectOf(keys, document)]
DataFile(document) == ObjectFile(DocumentKeys, document)

\* sorted(snapshots, key=date, reverse=True) and list.sort(key=date,
\* reverse=True): stable, so equal dates keep their order
RECURSIVE InsertNewestFirst(_, _)
InsertNewestFirst(sorted, snapshot) ==
    IF sorted = <<>> THEN <<snapshot>>
    ELSE IF sorted[Len(sorted)].date >= snapshot.date THEN Append(sorted, snapshot)
    ELSE Append(InsertNewestFirst(SubSeq(sorted, 1, Len(sorted) - 1), snapshot),
                sorted[Len(sorted)])

RECURSIVE SortNewestFirst(_)
SortNewestFirst(snapshots) ==
    IF snapshots = <<>> THEN <<>>
    ELSE InsertNewestFirst(SortNewestFirst(SubSeq(snapshots, 1, Len(snapshots) - 1)),
                           snapshots[Len(snapshots)])

\* list.sort() of numbers
RECURSIVE InsertAscending(_, _)
InsertAscending(sorted, v) ==
    IF sorted = <<>> THEN <<v>>
    ELSE IF sorted[Len(sorted)] <= v THEN Append(sorted, v)
    ELSE Append(InsertAscending(SubSeq(sorted, 1, Len(sorted) - 1), v), sorted[Len(sorted)])

RECURSIVE SortAscending(_)
SortAscending(values) ==
    IF values = <<>> THEN <<>>
    ELSE InsertAscending(SortAscending(SubSeq(values, 1, Len(values) - 1)),
                         values[Len(values)])

\* lines 36-38: item['target_balance'] = None when the item has no such key
WithTargetBalanceKey(item) ==
    IF "target_balance" \in DOMAIN item THEN item
    ELSE [k \in DOMAIN item \cup {"target_balance"} |->
             IF k = "target_balance" THEN Absent ELSE item[k]]

\* data.get(key, default) of lines 29-33
GetOr(file, key, default) ==
    IF key \in file.keys THEN file.data[key] ELSE default

\* data_manager.load_historical_data: the default on a missing file, on text
\* that is not JSON, on JSON that is not an object and on an object without
\* one of the required keys; else the object's values, every item with a
\* target_balance and the snapshots sorted newest first
load_historical_data(files, filename) ==
    LET file == files[filename] IN
    IF file.kind = "object" /\ RequiredKeys \subseteq file.keys
    THEN LET financial_items == GetOr(file, "financial_items", <<>>) IN
         Document(GetOr(file, "categories", <<>>),
                  [i \in 1..Len(financial_items) |->
                      WithTargetBalanceKey(financial_items[i])],
                  SortNewestFirst(GetOr(file, "snapshots", <<>>)),
                  GetOr(file, "achieved_milestones", <<>>),
                  GetOr(file, "financial_goal", Absent))
    ELSE default_return

data_to_save_without_milestones(app) ==
    Document(app.categories, app.financial_items, SortNewestFirst(app.snapshots),
             <<>>, app.financial_goal)

\* lines 66-74: the object written, all five keys, the snapshots sorted
\* newest first; json.dump and json.load keep lists, dictionaries with
\* string keys, numbers, strings, booleans and None as they are
data_to_save(app) ==
    Document(app.categories, app.financial_items, SortNewestFirst(app.snapshots),
             app.achieved_milestones, app.financial_goal)

\* data_manager.save_historical_data: a failed write is caught inside the
\* function (lines 81-86), which returns as after a successful one; the file
\* is then left as it was
save_historical_data(files, app, filename, write_ok) ==
    IF write_ok
    THEN [files EXCEPT ![filename] = ObjectFile(DocumentKeys, data_to_save(app))]
    ELSE files

\* data_manager.save_last_opened_file
save_last_opened_file(last_opened, filepath, write_ok) ==
    IF write_ok THEN Some(filepath) ELSE last_opened

\* [{"item_id": item['id'], "balance": 0.0} for item in financial_items]
ZeroBalances(financial_items) ==
    [i \in 1..Len(financial_items) |-> Balance(financial_items[i].id, 0)]

\* {b['item_id']: b['balance'] for b in balances}.get(item_id, 0.0)
BalanceOf(balances, item_id) ==
    LET hits == {i \in 1..Len(balances) : balances[i].item_id = item_id}
    IN IF hits = {} THEN 0 ELSE balances[SetMax(hits)].balance

\* NetWorthApp.__init__
NewApp(now) ==
    [categories |-> <<>>, financial_items |-> <<>>, snapshots |-> <<>>,
     current_snapshot_balances |-> <<>>, current_date |-> now,
     current_data_file |-> DATA_FILENAME, unsaved_changes |-> FALSE,
     achieved_milestones |-> <<>>, financial_goal |-> Absent]

\* the five components of a loaded document assigned to the app
WithDocument(app, document) ==
    [app EXCEPT !.categories = document.categories,
                !.financial_items = document.financial_items,
                !.snapshots = document.snapshots,
                !.achieved_milestones = document.achieved_milestones,
                !.financial_goal = document.financial_goal]

\* the fresh start of _load_and_prepare_data
WithFreshStart(app) ==
    [app EXCEPT !.categories = DefaultCategories, !.financial_items = <<>>,
                !.snapshots = <<>>, !.achieved_milestones = <<>>,
                !.financial_goal = Absent, !.current_data_file = DATA_FILENAME]

\* lines 225-236: current date and balances from the newest snapshot
WithCurrentFromSnapshots(app) ==
    IF app.snapshots # <<>>
    THEN [app EXCEPT !.current_date = app.snapshots[1].date,
                     !.current_snapshot_balances = app.snapshots[1].balances]
    ELSE IF app.financial_items # <<>> /\ app.current_snapshot_balances = <<>>
    THEN [app EXCEPT !.current_snapshot_balances = ZeroBalances(app.financial_items)]
    ELSE app

\* update_dashboard lines 424-430 with the achieved list replaced by the
\* milestones flagged in this evaluation
WithNewlyAchieved_replacing(achieved_milestones, newly_achieved) ==
    SortAscending(newly_achieved)

\* update_dashboard lines 424-430: the flagged values not yet in the list are
\* appended and the list is sorted
WithNewlyAchieved(achieved_milestones, newly_achieved) ==
    SortAscending(achieved_milestones \o
                  SelectSeq(newly_achieved, LAMBDA v : v \notin Range(achieved_milestones)))

\* NetWorthApp.update_dashboard: the app after the refresh and the titles of
\* the notifications it raised
update_dashboard(app) ==
    LET has_items == app.financial_items # <<>>
        has_snapshots == app.snapshots # <<>>
        current_nw == DashboardCurrentNetWorth(app.current_snapshot_balances,
                                               app.financial_items)
        date_notes == IF DateParses(app.current_date) THEN <<>> ELSE <<"">>
        milestone_data == update_and_get_milestone_progress(
                              current_nw, app.achieved_milestones, STANDARD_MILESTONES).result
        added == SelectSeq(milestone_data.newly_achieved_milestones,
                           LAMBDA v : v \notin Range(app.achieved_milestones))
    IN IF ~has_items /\ ~has_snapshots THEN [app |-> app, notes |-> <<>>]
       ELSE IF has_items /\ has_snapshots /\ added # <<>>
       THEN [app |-> [app EXCEPT !.achieved_milestones =
                                     WithNewlyAchieved(@, milestone_data.newly_achieved_milestones),
                                 !.unsaved_changes = TRUE],
             notes |-> date_notes \o <<"Milestone Reached!">>]
       ELSE [app |-> app, notes |-> date_notes]

\* ------------------------------------------------------------------------
\* convert_data.py: the migration of the legacy records, and
\* asset_utils.manage_categories_interactive on the category list
\* ------------------------------------------------------------------------
\* the characters of the names in the order of their code points
CodePointOrder ==
    << " ", "0", "1", "2", "3", "4", "5", "6", "7", "8", "9", "A", "B", "C", "D", "E", "F",
       "G", "H", "I", "J", "K", "L", "M", "N", "O", "P", "Q", "R", "S", "T", "U", "V", "W",
       "X", "Y", "Z", "_", "a", "b", "c", "d", "e", "f", "g", "h", "i", "j", "k", "l", "m",
       "n", "o", "p", "q", "r", "s", "t", "u", "v", "w", "x", "y", "z" >>

Ord(ch) == CHOOSE i \in 1..Len(CodePointOrder) : CodePointOrder[i] = ch

\* a < b for strings
RECURSIVE StrLess(_, _)
StrLess(a, b) ==
    IF b = <<>> THEN FALSE
    ELSE IF a = <<>> THEN TRUE
    ELSE IF a[1] = b[1] THEN StrLess(Tail(a), Tail(b))
    ELSE Ord(a[1]) < Ord(b[1])

\* sorted(list(a_set_of_strings))
RECURSIVE SortedStrings(_)
SortedStrings(S) ==
    IF S = {} THEN <<>>
    ELSE LET first == CHOOSE x \in S : \A y \in S \ {x} : StrLess(x, y)
         IN <<first>> \o SortedStrings(S \ {first})

\* convert_data.PREDEFINED_CATEGORY_KEYWORDS, lines 6-18
PREDEFINED_CATEGORY_KEYWORDS ==
    << [name |-> <<"P", "r", "o", "p", "e", "r", "t", "y">>,
        keywords |->
          << <<"h", "o", "u", "s", "e">>, <<"p", "r", "o", "p", "e", "r", "t", "y">>,
             <<"f", "l", "a", "t">>, <<"a", "p", "a", "r", "t", "m", "e", "n", "t">>,
             <<"l", "a", "n", "d">> >>],
       [name |-> <<"P", "e", "n", "s", "i", "o", "n">>,
        keywords |->
          << <<"p", "e", "n", "s", "i", "o", "n">>, <<"s", "i", "p", "p">>,
             <<"r", "e", "t", "i", "r", "e", "m", "e", "n", "t">> >>],
       [name |-> <<"I", "S", "A">>,
        keywords |->
          << <<"i", "s", "a">>, <<"s", "s", "i", "s", "a">>,
             <<"s", "t", "o", "c", "k", "s", " ", "a", "n", "d", " ", "s", "h", "a", "r", "e", "s", " ", "i", "s", "a">>,
             <<"c", "a", "s", "h", " ", "i", "s", "a">> >>],
       [name |-> <<"S", "a", "v", "i", "n", "g", "s">>,
        keywords |->
          << <<"s", "a", "v", "i", "n", "g", "s">>,
             <<"p", "r", "e", "m", "i", "u", "m", " ", "b", "o", "n", "d", "s">>,
             <<"s", "a", "v", "e", "r">>, <<"s", "a", "v", "i", "n", "g">>,
             <<"c", "a", "s", "h", " ", "s", "a", "v", "i", "n", "g", "s">> >>],
       [name |-> <<"C", "u", "r", "r", "e", "n", "t", " ", "A", "c", "c", "o", "u", "n", "t">>,
        keywords |->
          << <<"c", "u", "r", "r", "e", "n", "t">>,
             <<"c", "h", "e", "c", "k", "i", "n", "g">>,
             <<"b", "a", "n", "k", " ", "b", "a", "l", "a", "n", "c", "e">> >>],
       [name |-> <<"I", "n", "v", "e", "s", "t", "m", "e", "n", "t">>,
        keywords |->
          << <<"s", "h", "a", "r", "e", "s">>, <<"s", "t", "o", "c", "k", "s">>,
             <<"i", "n", "v", "e", "s", "t", "m", "e", "n", "t">>, <<"f", "u", "n", "d">>,
             <<"g", "i", "a">>, <<"b", "r", "o", "k", "e", "r", "a", "g", "e">> >>],
       [name |-> <<"M", "o", "r", "t", "g", "a", "g", "e">>,
        keywords |->
          << <<"m", "o", "r", "t", "g", "a", "g", "e">>,
             <<"p", "r", "o", "p", "e", "r", "t", "y", " ", "l", "o", "a", "n">> >>],
       [name |-> <<"L", "o", "a", "n">>,
        keywords |->
          << <<"l", "o", "a", "n">>,
             <<"c", "a", "r", " ", "f", "i", "n", "a", "n", "c", "e">>,
             <<"p", "e", "r", "s", "o", "n", "a", "l", " ", "l", "o", "a", "n">>,
             <<"d", "e", "b", "t">> >>],
       [name |-> <<"C", "r", "e", "d", "i", "t", " ", "C", "a", "r", "d">>,
        keywords |->
          << <<"c", "r", "e", "d", "i", "t">>, <<"c", "c">>,
             <<"c", "r", "e", "d", "i", "t", " ", "c", "a", "r", "d", " ", "b", "a", "l", "a", "n", "c", "e">> >>],
       [name |-> <<"B", "u", "s", "i", "n", "e", "s", "s">>,
        keywords |->
          << <<"b", "u", "s", "i", "n", "e", "s", "s">>,
             <<"c", "o", "m", "p", "a", "n", "y", " ", "a", "s", "s", "e", "t", "s">>,
             <<"b", "u", "s", "i", "n", "e", "s", "s", " ", "v", "a", "l", "u", "e">> >>],
       [name |-> <<"O", "t", "h", "e", "r">>,
        keywords |->
          << <<"m", "i", "s", "c", "e", "l", "l", "a", "n", "e", "o", "u", "s">>,
             <<"o", "t", "h", "e", "r", " ", "a", "s", "s", "e", "t", "s">> >>] >>

\* PREDEFINED_CATEGORY_KEYWORDS.get(cat_name, [])
PredefinedKeywords(cat_name) ==
    LET hits == {i \in 1..Len(PREDEFINED_CATEGORY_KEYWORDS) :
                    PREDEFINED_CATEGORY_KEYWORDS[i].name = cat_name}
    IN IF hits = {} THEN <<>> ELSE PREDEFINED_CATEGORY_KEYWORDS[SetMin(hits)].keywords

\* convert_data.LIABILITY_CATEGORIES, line 21
LIABILITY_CATEGORIES == {<<"M", "o", "r", "t", "g", "a", "g", "e">>, <<"L", "o", "a", "n">>, <<"C", "r", "e", "d", "i", "t", " ", "C", "a", "r", "d">>}

CatPrefix == <<"c", "a", "t", "_">>
ItemPrefix == <<"i", "t", "e", "m", "_">>
DefaultIdPrefix == <<"i", "d", "_">>

\* an entry or record value that Python treats as false: None or ""
Falsy(o) == ~IsPresent(o) \/ Val(o) = <<>>

\* the asset entries of all records, in the order of lines 64-65
RECURSIVE AllEntries(_)
AllEntries(old_data_snapshots) ==
    IF old_data_snapshots = <<>> THEN <<>>
    ELSE Head(old_data_snapshots).assets \o AllEntries(Tail(old_data_snapshots))

\* lines 70-72: the entries with a name and a category
NamedEntries(old_data_snapshots) ==
    SelectSeq(AllEntries(old_data_snapshots),
              LAMBDA asset_entry : ~Falsy(asset_entry.name) /\ ~Falsy(asset_entry.category))

\* lines 82-85 and 95-99: the ids generate_id gives n objects one after the
\* other
RECURSIVE GeneratedIds(_, _)
GeneratedIds(n, prefix) ==
    IF n = 0 THEN <<>>
    ELSE LET existing_ids == GeneratedIds(n - 1, prefix)
         IN Append(existing_ids, generate_id(existing_ids, prefix))

\* the position of a string in a list of strings
PositionOf(strings, s) == SetMin({i \in 1..Len(strings) : strings[i] = s})

\* lines 75-79: the details kept for an item name are those of its first
\* entry
FirstEntryNamed(entries, item_name) ==
    entries[SetMin({i \in 1..Len(entries) : Val(entries[i].name) = item_name})]

\* lines 109-111
ItemType(item_name, original_cat_name) ==
    IF original_cat_name \in LIABILITY_CATEGORIES THEN "liability" ELSE "asset"

\* convert_data lines 53-158: the refactored_data built from the legacy
\* records
convert_data(old_data_snapshots) ==
    LET entries == NamedEntries(old_data_snapshots)
        category_names ==
            SortedStrings({Val(entries[i].category) : i \in 1..Len(entries)})
        cat_ids == GeneratedIds(Len(category_names), CatPrefix)
        item_names == SortedStrings({Val(entries[i].name) : i \in 1..Len(entries)})
        item_ids == GeneratedIds(Len(item_names), ItemPrefix)
        new_categories_list ==
            [k \in 1..Len(category_names) |->
                [id |-> cat_ids[k], name |-> category_names[k],
                 keywords |-> PredefinedKeywords(category_names[k])]]
        new_financial_items_list ==
            [k \in 1..Len(item_names) |->
                LET details == FirstEntryNamed(entries, item_names[k])
                    original_cat_name == Val(details.category)
                IN [id |-> item_ids[k], name |-> item_names[k],
                    category_id |-> cat_ids[PositionOf(category_names, original_cat_name)],
                    liquid |-> IF IsPresent(details.liquid) THEN Val(details.liquid)
                               ELSE FALSE,
                    type |-> ItemType(item_names[k], original_cat_name)]]
        Mapped(asset_entry) ==
            /\ IsPresent(asset_entry.name)
            /\ IsPresent(asset_entry.balance)
            /\ \E k \in 1..Len(item_names) : item_names[k] = Val(asset_entry.name)
        BalancesOf(old_snapshot) ==
            LET kept == SelectSeq(old_snapshot.assets, Mapped)
            IN [i \in 1..Len(kept) |->
                   Balance(item_ids[PositionOf(item_names, Val(kept[i].name))],
                           Val(kept[i].balance))]
        dated == SelectSeq(old_data_snapshots,
                           LAMBDA old_snapshot : IsPresent(old_snapshot.date))
        new_snapshots_list ==
            [k \in 1..Len(dated) |-> Snapshot(Val(dated[k].date), BalancesOf(dated[k]))]
    IN [categories |-> new_categories_list,
        financial_items |-> new_financial_items_list,
        snapshots |-> SortNewestFirst(new_snapshots_list)]

\* lines 197-198 and 283-284: sorted(list(set(k.strip().lower() ...))) of the
\* keywords typed
TypedKeywords(keywords) ==
    SortedStrings({Lower(keywords[i]) : i \in {k \in 1..Len(keywords) : keywords[k] # <<>>}})

\* manage_categories_interactive lines 184-209: 'a', Add New Category
add_category(categories_list, new_name, keywords) ==
    IF new_name = <<>> THEN categories_list
    ELSE IF \E i \in 1..Len(categories_list) :
               Lower(categories_list[i].name) = Lower(new_name)
    THEN categories_list
    ELSE Append(categories_list,
                [id |-> generate_unique_id(
                            [i \in 1..Len(categories_list) |-> categories_list[i].id],
                            DefaultIdPrefix),
                 name |-> new_name, keywords |-> TypedKeywords(keywords)])

\* manage_categories_interactive lines 256-269: 'e', Edit Name of the
\* category at position k
edit_category_name(categories_list, k, new_name) ==
    IF new_name = <<>> THEN categories_list
    ELSE IF \E i \in 1..Len(categories_list) :
               /\ Lower(categories_list[i].name) = Lower(new_name)
               /\ categories_list[i].id # categories_list[k].id
    THEN categories_list
    ELSE [categories_list EXCEPT ![k].name = new_name]

\* manage_categories_interactive lines 396-408: 'd', Delete Category at
\* position k, refused while an item uses it
delete_category(categories_list, financial_items_list, k) ==
    IF \E i \in 1..Len(financial_items_list) :
          financial_items_list[i].category_id = categories_list[k].id
    THEN categories_list
    ELSE SubSeq(categories_list, 1, k - 1) \o
         SubSeq(categories_list, k + 1, Len(categories_list))

\* ------------------------------------------------------------------------
\* State
\* ------------------------------------------------------------------------
VARIABLES id_list, id_prefix, id_out
VARIABLES ms_current, ms_achieved, ms_defs, ms_out
VARIABLES st_in, st_out
VARIABLES tr_in, tr_out
VARIABLES gp_in, gp_out
VARIABLES rt_model, rt_disk, rt_saved, rt_out
VARIABLES gc_in, gc_out
VARIABLES lg_in, lg_out, lg_categories, lg_steps
VARIABLES self, disk, last_opened_file, today, mounted, notifications, events
\* whether the last handler's write of the data file raised an error inside
\* save_historical_data
VARIABLES write_failed

idVars == <<id_list, id_prefix, id_out>>
msVars == <<ms_current, ms_achieved, ms_defs, ms_out>>
stVars == <<st_in, st_out>>
trVars == <<tr_in, tr_out>>
gpVars == <<gp_in, gp_out>>
rtVars == <<rt_model, rt_disk, rt_saved, rt_out>>
gcVars == <<gc_in, gc_out>>
lgVars == <<lg_in, lg_out, lg_categories, lg_steps>>
appVars ==
    <<self, disk, last_opened_file, today, mounted, notifications, events, write_failed>>

vars == <<idVars, msVars, stVars, trVars, gpVars, rtVars, gcVars, lgVars, appVars>>

\* ------------------------------------------------------------------------
\* The identifier generators applied to lists of existing ids
\* ------------------------------------------------------------------------
\* Existing ids: "c" followed by up to MaxRemLen characters, and a few ids
\* that do not start with "c"; the prefix asked for is "c" or "c-"
IdAlphabet == {"0", "1", "-"}
Prefixes == {<<"c">>, <<"c", "-">>}
Remainders == BoundedSeq(IdAlphabet, MaxRemLen)
ForeignIds == {<<>>, <<"1">>, <<"0", "c", "1">>}
IdStrings == {<<"c">> \o r : r \in Remainders} \cup ForeignIds

IdInit ==
    /\ id_list \in BoundedSeq(IdStrings, MaxIds)
    /\ id_prefix \in Prefixes
    /\ id_out = [fn |-> None, id |-> <<>>]

IdIdle ==
    /\ id_list = <<>>
    /\ id_prefix = <<"c">>
    /\ id_out = [fn |-> None, id |-> <<>>]

GenerateUniqueId ==
    /\ id_out.fn = None
    /\ id_out' = [fn |-> "generate_unique_id",
                  id |-> generate_unique_id(id_list, id_prefix)]
    /\ UNCHANGED <<id_list, id_prefix, msVars, stVars, trVars, gpVars, rtVars, appVars, gcVars, lgVars>>

GenerateId ==
    /\ id_out.fn = None
    /\ id_out' = [fn |-> "generate_id", id |-> generate_id(id_list, id_prefix)]
    /\ UNCHANGED <<id_list, id_prefix, msVars, stVars, trVars, gpVars, rtVars, appVars, gcVars, lgVars>>

\* ------------------------------------------------------------------------
\* The milestone tracker applied to a net worth and an achieved list
\* ------------------------------------------------------------------------
ScenarioMilestones ==
    << [value |-> 0, name |-> "Debt Free"],
       [value |-> 1000, name |-> "1k"],
       [value |-> 10000, name |-> "10k"],
       [value |-> 25000, name |-> "25k"] >>

ReversedScenarioMilestones ==
    << [value |-> 25000, name |-> "25k"],
       [value |-> 10000, name |-> "10k"],
       [value |-> 1000, name |-> "1k"],
       [value |-> 0, name |-> "Debt Free"] >>

MilestoneDefinitions ==
    {STANDARD_MILESTONES, ScenarioMilestones, ReversedScenarioMilestones}

NetWorthInputs == {-500, 0, 500, 1000, 15000, 25000, 999999, 1000000}

\* values a saved achieved list may hold: thresholds, and 500, which is none
AchievableValues == {0, 500, 1000, 10000, 25000, 1000000}

AchievedInputs ==
    {SetToAscSeq(S) : S \in {T \in SUBSET AchievableValues : Cardinality(T) <= MaxAchieved}}

NoMilestoneResult ==
    [result |-> [next_milestone_name |-> "N/A",
                 next_milestone_value |-> Absent,
                 progress_percent |-> Frac(0, 1),
                 newly_achieved_milestones |-> <<>>,
                 all_milestones_achieved |-> FALSE],
     achieved_milestones_values |-> <<>>]

MsInit ==
    /\ ms_current \in NetWorthInputs
    /\ ms_achieved \in AchievedInputs
    /\ ms_defs \in MilestoneDefinitions
    /\ ms_out = [called |-> FALSE, ret |-> NoMilestoneResult]

MsIdle ==
    /\ ms_current = 0
    /\ ms_achieved = <<>>
    /\ ms_defs = STANDARD_MILESTONES
    /\ ms_out = [called |-> FALSE, ret |-> NoMilestoneResult]

EvaluateMilestones ==
    /\ ~ms_out.called
    /\ ms_out' = [called |-> TRUE,
                  ret |-> update_and_get_milestone_progress(ms_current, ms_achieved, ms_defs)]
    /\ UNCHANGED <<ms_current, ms_achieved, ms_defs, idVars, stVars, trVars, gpVars, rtVars, appVars, gcVars, lgVars>>

\* ------------------------------------------------------------------------
\* The net-worth functions applied to one list of balances
\* ------------------------------------------------------------------------
\* "item_x" is the id of no financial item
StatsBalanceEntries ==
    {Balance(i, b) : i \in {"item_a", "item_b", "item_x"}, b \in {-2000, 1500}}
        \cup {Balance("item_a", 0)}

StatsSnapshots ==
    { Snapshot(20240301, <<>>),
      Snapshot(20240201, <<Balance("item_a", 1000)>>),
      Snapshot(20240201, <<Balance("item_a", 1500), Balance("item_b", -1500)>>) }

NoStats == calculate_summary_stats(<<>>, <<>>, <<>>, <<>>)

StInit ==
    /\ st_in \in [current_snapshot_balances : BoundedSeq(StatsBalanceEntries, MaxBalances),
                  financial_items : {<<>>, <<ItemA, ItemB>>},
                  all_snapshots : BoundedSeq(StatsSnapshots, MaxHistory),
                  categories_list : {<<>>, DefaultCategories}]
    /\ st_out = [fn |-> None, net_worth |-> 0, stats |-> NoStats]

StIdle ==
    /\ st_in = [current_snapshot_balances |-> <<>>, financial_items |-> <<>>,
                all_snapshots |-> <<>>, categories_list |-> <<>>]
    /\ st_out = [fn |-> None, net_worth |-> 0, stats |-> NoStats]

CalculateSummaryStats ==
    /\ st_out.fn = None
    /\ LET stats == calculate_summary_stats(st_in.current_snapshot_balances,
                        st_in.financial_items, st_in.all_snapshots, st_in.categories_list)
       IN st_out' = [fn |-> "calculate_summary_stats",
                     net_worth |-> stats.net_worth, stats |-> stats]
    /\ UNCHANGED <<st_in, idVars, msVars, trVars, gpVars, rtVars, appVars, gcVars, lgVars>>

GetNetWorthForSnapshot ==
    /\ st_out.fn = None
    /\ st_out' = [fn |-> "get_net_worth_for_snapshot",
                  net_worth |-> get_net_worth_for_snapshot(
                                    st_in.current_snapshot_balances, st_in.financial_items),
                  stats |-> NoStats]
    /\ UNCHANGED <<st_in, idVars, msVars, trVars, gpVars, rtVars, appVars, gcVars, lgVars>>

DashboardNetWorth ==
    /\ st_out.fn = None
    /\ st_out' = [fn |-> "update_dashboard",
                  net_worth |-> DashboardCurrentNetWorth(
                                    st_in.current_snapshot_balances, st_in.financial_items),
                  stats |-> NoStats]
    /\ UNCHANGED <<st_in, idVars, msVars, trVars, gpVars, rtVars, appVars, gcVars, lgVars>>

\* ------------------------------------------------------------------------
\* The trend calculator applied to a snapshot history
\* ------------------------------------------------------------------------
\* the i-th calendar month from January 2023 on, as YYYYMM
TrendMonthKey(i) == (2023 + (i \div 12)) * 100 + (i % 12) + 1

\* the balances recorded on a date of month i: the net worth grows by an
\* amount that differs from month to month, and within the month
TrendBalances(i, day) ==
    <<Balance("item_a", 12000 + 1000 * i + 50 * i * i + 10 * day),
      Balance("item_b", -2000)>>

RECURSIVE Reversed(_)
Reversed(seq) == IF seq = <<>> THEN <<>> ELSE Append(Reversed(Tail(seq)), Head(seq))

\* One snapshot on the 5th of every month of `months`, oldest first;
\* `variant` adds a second snapshot on the 20th of the newest or the oldest
\* month
RECURSIVE TrendSnapshotsFrom(_, _, _, _)
TrendSnapshotsFrom(asc, k, variant, built) ==
    IF k > Len(asc) THEN built
    ELSE LET i == asc[k]
             first == Snapshot(TrendMonthKey(i) * 100 + 5, TrendBalances(i, 5))
             second == Snapshot(TrendMonthKey(i) * 100 + 20, TrendBalances(i, 20))
         IN IF \/ variant = "second_in_newest" /\ k = Len(asc)
               \/ variant = "second_in_oldest" /\ k = 1
            THEN TrendSnapshotsFrom(asc, k + 1, variant, built \o <<first, second>>)
            ELSE TrendSnapshotsFrom(asc, k + 1, variant, Append(built, first))

\* the variant "unparseable_date" adds a snapshot dated 30 February; `order`
\* is the order of the list
TrendHistory(months, variant, order) ==
    LET built == TrendSnapshotsFrom(SetToAscSeq(months), 1, variant, <<>>)
        dated == IF variant = "unparseable_date" /\ built # <<>>
                 THEN Append(built, Snapshot(20230230, TrendBalances(0, 30)))
                 ELSE built
    IN IF order = "newest_first" THEN Reversed(dated) ELSE dated

\* snapshots on 2024-01-01 (net worth 10000) and 2024-04-01 (13000) only
GapScenarioHistory ==
    << Snapshot(20240401, <<Balance("item_a", 15000), Balance("item_b", -2000)>>),
       Snapshot(20240101, <<Balance("item_a", 12000), Balance("item_b", -2000)>>) >>

TrendVariants == {"plain", "second_in_newest", "second_in_oldest", "unparseable_date"}

\* the sets of calendar months that have a snapshot: the first k of n months
\* with up to two of them left out
TrendMonthSets(n) ==
    {(0..(k - 1)) \ {a, b} : k \in 0..n, a \in 0..(n - 1), b \in 0..(n - 1)}
    \cup {0..(k - 1) : k \in 0..n}

\* histories over the first n calendar months, and the gap scenario
TrendInputs(n) ==
    {[snapshots |-> TrendHistory(months, variant, order), financial_items |-> <<ItemA, ItemB>>] :
        months \in TrendMonthSets(n), variant \in TrendVariants,
        order \in {"newest_first", "oldest_first"}}
    \cup {[snapshots |-> TrendHistory(months, "plain", "newest_first"), financial_items |-> <<>>] :
        months \in TrendMonthSets(n)}
    \cup {[snapshots |-> GapScenarioHistory, financial_items |-> <<ItemA, ItemB>>]}

TrInit ==
    /\ tr_in \in TrendInputs(TrendMonths)
    /\ tr_out = [called |-> FALSE, ret |-> NoTrends]

TrIdle ==
    /\ tr_in = [snapshots |-> <<>>, financial_items |-> <<>>]
    /\ tr_out = [called |-> FALSE, ret |-> NoTrends]

CalculateEnhancedTrends ==
    /\ ~tr_out.called
    /\ tr_out' = [called |-> TRUE,
                  ret |-> calculate_enhanced_trends(tr_in.snapshots, tr_in.financial_items)]
    /\ UNCHANGED <<tr_in, idVars, msVars, stVars, gpVars, rtVars, appVars, gcVars, lgVars>>

\* ------------------------------------------------------------------------
\* The app: start-up, the dashboard handlers and the passing of days
\* ------------------------------------------------------------------------
\* a document saved by an earlier run: one asset, one snapshot, and the
\* 1k milestone not yet recorded
SavedDocument ==
    Document(DefaultCategories, <<ItemA>>,
             <<Snapshot(EarlierDate, <<Balance("item_a", 1500)>>)>>, <<0>>, Absent)

\* balances a user types in, a goal, a target
BalanceValues == {-2000, 1500}
GoalValue == 100 * 1000
TargetValue == 5 * 1000

\* the ids "item_" + uuid4().hex[:8] may give a new item
NewItemIds == {"item_a", "item_b"}

\* what a user may fill the item form with: a name, one of the categories
\* offered, a type and a liquidity
FormInputs ==
    { [name |-> "Savings account", category_id |-> "cat_4", type |-> "asset",
       liquid |-> TRUE],
      [name |-> "Mortgage", category_id |-> "cat_7", type |-> "liability",
       liquid |-> FALSE] }

\* AssetFormScreen.on_mount line 82: the categories the form offers
CategoryOptions(categories) == {categories[i].id : i \in 1..Len(categories)}

\* AssetFormScreen.on_button_pressed lines 115-121: the item the form
\* dismisses with; it has no target_balance key
item_data(id, form) ==
    [id |-> id, name |-> form.name, category_id |-> form.category_id,
     type |-> form.type, liquid |-> form.liquid]

\* the first position of the list holding the id, 0 when none does
IndexOfId(working_financial_items, id) ==
    LET hits == {i \in 1..Len(working_financial_items) :
                    working_financial_items[i].id = id}
    IN IF hits = {} THEN 0 ELSE SetMin(hits)

\* AssetManagementScreen._handle_add_item_result lines 113-131: the item is
\* appended unless its id is already in the list
handle_add_item_result(working_financial_items, new_item) ==
    IF IndexOfId(working_financial_items, new_item.id) # 0
    THEN working_financial_items
    ELSE Append(working_financial_items, new_item)

\* AssetManagementScreen._handle_edit_item_result lines 134-154: the first
\* item with the id is replaced
handle_edit_item_result(working_financial_items, edited_item) ==
    LET found_item_index == IndexOfId(working_financial_items, edited_item.id)
    IN IF found_item_index = 0 THEN working_financial_items
       ELSE [working_financial_items EXCEPT ![found_item_index] = edited_item]

\* AssetManagementScreen._handle_delete_confirmation lines 156-179: the first
\* item with the id is removed
handle_delete_confirmation(working_financial_items, selected_row_item_id) ==
    LET at == IndexOfId(working_financial_items, selected_row_item_id)
    IN IF at = 0 THEN working_financial_items
       ELSE SubSeq(working_financial_items, 1, at - 1) \o
            SubSeq(working_financial_items, at + 1, Len(working_financial_items))

\* operations done on one visit of the asset management screen
MaxScreenOps == 1

\* the working lists one successful add, edit or delete leads to; the id of
\* a new item is one that neither the list the screen was opened with nor
\* the working list holds
AfterOneOperation(working, opened_with, categories) ==
    LET forms == {f \in FormInputs : f.category_id \in CategoryOptions(categories)}
        known == {opened_with[i].id : i \in 1..Len(opened_with)} \cup
                 {working[i].id : i \in 1..Len(working)}
    IN {handle_add_item_result(working, item_data(id, f)) :
           id \in NewItemIds \ known, f \in forms}
       \cup {handle_edit_item_result(working, item_data(working[k].id, f)) :
                k \in 1..Len(working), f \in forms}
       \cup {handle_delete_confirmation(working, working[k].id) : k \in 1..Len(working)}

\* the working lists of a screen on which 1..n operations succeeded
RECURSIVE DirtyWorkingLists(_, _, _, _)
DirtyWorkingLists(lists, opened_with, categories, n) ==
    LET after == UNION {AfterOneOperation(w, opened_with, categories) : w \in lists}
    IN IF n = 0 THEN {}
       ELSE after \cup DirtyWorkingLists(after, opened_with, categories, n - 1)

\* AssetManagementScreen.action_request_close lines 63-72: the working list
\* when an operation has succeeded (is_dirty), else nothing
AssetScreenResults(financial_items, categories) ==
    {Absent} \cup
    {Some(l) : l \in DirtyWorkingLists({financial_items}, financial_items, categories,
                                       MaxScreenOps)}

\* selected_item_data["target_balance"] = result
WithTargetBalance(item, target_balance) ==
    [k \in DOMAIN item \cup {"target_balance"} |->
        IF k = "target_balance" THEN target_balance ELSE item[k]]

\* the orders in which a set of item ids may be iterated
IdOrders == {<<"item_a", "item_b">>, <<"item_b", "item_a">>}

\* one more handler has run
Handled == events < MaxEvents /\ events' = events + 1

\* what a run may find on disk: the default data file, the other data file
\* and the file remembered as last opened
StartingFiles ==
    { [data |-> MissingFile, other |-> MissingFile, last |-> Absent],
      [data |-> DataFile(SavedDocument), other |-> MissingFile, last |-> Absent],
      [data |-> CorruptFile, other |-> MissingFile, last |-> Absent],
      [data |-> DataFile(SavedDocument), other |-> CorruptFile, last |-> Absent],
      [data |-> ObjectFile(DocumentKeys \ {"snapshots"}, SavedDocument),
       other |-> MissingFile, last |-> Absent],
      [data |-> MissingFile, other |-> DataFile(SavedDocument), last |-> Some(OtherDataFile)],
      [data |-> DataFile(SavedDocument), other |-> DataFile(SavedDocument),
       last |-> Some(OtherDataFile)],
      [data |-> DataFile(SavedDocument), other |-> MissingFile, last |-> Some(OtherDataFile)] }

AppInit ==
    /\ today = FirstToday
    /\ self = NewApp(today)
    /\ \E found \in StartingFiles :
          /\ disk = [p \in DataPaths |->
                        IF p = DATA_FILENAME THEN found.data
                        ELSE IF p = OtherDataFile THEN found.other ELSE CorruptFile]
          /\ last_opened_file = found.last
    /\ mounted = FALSE
    /\ notifications = <<>>
    /\ events = 0
    /\ write_failed = FALSE

AppIdle ==
    /\ today = FirstToday
    /\ self = NewApp(today)
    /\ disk = [p \in DataPaths |-> MissingFile]
    /\ last_opened_file = Absent
    /\ mounted = FALSE
    /\ notifications = <<>>
    /\ events = 0
    /\ write_failed = FALSE

\* os.path.exists
Exists(files, file_path) == file_path \in DOMAIN files /\ files[file_path].kind # "missing"

\* _load_and_prepare_data lines 178-222: the file remembered as last opened,
\* else the default file, else a fresh start
LoadAtStartup(app, files, last_opened) ==
    IF IsPresent(last_opened) /\ Exists(files, Val(last_opened))
    THEN [app |-> WithDocument([app EXCEPT !.current_data_file = Val(last_opened)],
                               load_historical_data(files, Val(last_opened))),
          notes |-> <<>>]
    ELSE IF Exists(files, DATA_FILENAME)
    THEN [app |-> WithDocument([app EXCEPT !.current_data_file = DATA_FILENAME],
                               load_historical_data(files, DATA_FILENAME)),
          notes |-> <<>>]
    ELSE [app |-> WithFreshStart(app), notes |-> <<"New Setup">>]

\* on_mount: _load_and_prepare_data, then update_dashboard
OnMount ==
    /\ Handled
    /\ ~mounted
    /\ \E config_write_ok \in BOOLEAN :
          LET loaded == LoadAtStartup(self, disk, last_opened_file)
              prepared == WithCurrentFromSnapshots(loaded.app)
              shown == update_dashboard(prepared)
          IN /\ self' = shown.app
             /\ last_opened_file' = save_last_opened_file(
                                        last_opened_file, prepared.current_data_file,
                                        config_write_ok)
             /\ notifications' = loaded.notes \o shown.notes
    /\ mounted' = TRUE
    /\ write_failed' = FALSE
    /\ UNCHANGED <<disk, today, idVars, msVars, stVars, trVars, gpVars, rtVars, gcVars, lgVars>>

\* action_save_data
SaveData ==
    /\ Handled
    /\ mounted
    /\ \E write_ok \in BOOLEAN :
          /\ write_failed' = ~write_ok
          /\ disk' = save_historical_data(disk, self, self.current_data_file, write_ok)
    /\ self' = [self EXCEPT !.unsaved_changes = FALSE]
    /\ notifications' = <<"Save Successful">>
    /\ UNCHANGED <<last_opened_file, today, mounted, idVars, msVars, stVars, trVars, gpVars, rtVars, gcVars, lgVars>>

\* _handle_open_file_result
OpenFile ==
    /\ Handled
    /\ mounted
    /\ \E file_path \in {Absent} \cup {Some(p) : p \in DataPaths},
          config_write_ok \in BOOLEAN :
          IF ~IsPresent(file_path)
          THEN /\ notifications' = <<"Cancelled">>
               /\ UNCHANGED <<self, last_opened_file>>
          ELSE IF ~Exists(disk, Val(file_path)) \/ ~EndsWithJson(Val(file_path))
          THEN /\ notifications' = <<"File Open Error">>
               /\ UNCHANGED <<self, last_opened_file>>
          ELSE LET loaded == WithDocument([self EXCEPT !.current_data_file = Val(file_path)],
                                          load_historical_data(disk, Val(file_path)))
                   current ==
                       IF loaded.snapshots # <<>>
                       THEN [loaded EXCEPT !.current_date = loaded.snapshots[1].date,
                                           !.current_snapshot_balances =
                                               loaded.snapshots[1].balances]
                       ELSE [loaded EXCEPT !.current_date = today,
                                           !.current_snapshot_balances =
                                               ZeroBalances(loaded.financial_items)]
                   shown == update_dashboard(current)
               IN /\ self' = shown.app
                  /\ last_opened_file' = save_last_opened_file(
                                             last_opened_file, Val(file_path), config_write_ok)
                  /\ notifications' = shown.notes \o <<"File Opened">>
    /\ write_failed' = FALSE
    /\ UNCHANGED <<disk, today, mounted, idVars, msVars, stVars, trVars, gpVars, rtVars, gcVars, lgVars>>

\* _handle_save_data_as_result
SaveAs ==
    /\ Handled
    /\ mounted
    /\ \E file_path \in {Absent} \cup {Some(p) : p \in DataPaths},
          write_ok \in BOOLEAN, config_write_ok \in BOOLEAN :
          IF ~IsPresent(file_path)
          THEN /\ notifications' = <<"Cancelled">>
               /\ UNCHANGED <<self, disk, last_opened_file>>
               /\ write_failed' = FALSE
          ELSE IF ~EndsWithJson(Val(file_path))
          THEN /\ notifications' = <<"Save As Error">>
               /\ UNCHANGED <<self, disk, last_opened_file>>
               /\ write_failed' = FALSE
          ELSE /\ write_failed' = ~write_ok
               /\ disk' = save_historical_data(disk, self, Val(file_path), write_ok)
               /\ last_opened_file' = save_last_opened_file(
                                          last_opened_file, Val(file_path), config_write_ok)
               /\ self' = [self EXCEPT !.current_data_file = Val(file_path),
                                       !.unsaved_changes = FALSE]
               /\ notifications' = <<"Save As Successful">>
    /\ UNCHANGED <<today, mounted, idVars, msVars, stVars, trVars, gpVars, rtVars, gcVars, lgVars>>

\* _handle_new_file_result
NewFile ==
    /\ Handled
    /\ mounted
    /\ \E file_path \in {Absent} \cup {Some(p) : p \in {q \in DataPaths : EndsWithJson(q)}},
          write_ok \in BOOLEAN, config_write_ok \in BOOLEAN :
          IF ~IsPresent(file_path)
          THEN /\ notifications' = <<"Cancelled">>
               /\ UNCHANGED <<self, disk, last_opened_file>>
               /\ write_failed' = FALSE
          ELSE LET fresh == [WithFreshStart(self) EXCEPT
                                !.current_data_file = Val(file_path),
                                !.current_snapshot_balances = <<>>,
                                !.current_date = today]
                   shown == update_dashboard(fresh)
               IN /\ write_failed' = ~write_ok
                  /\ disk' = save_historical_data(disk, fresh, Val(file_path), write_ok)
                  /\ last_opened_file' = save_last_opened_file(
                                             last_opened_file, Val(file_path), config_write_ok)
                  /\ self' = [shown.app EXCEPT !.unsaved_changes = FALSE]
                  /\ notifications' = shown.notes \o <<"New File Created">>
    /\ UNCHANGED <<today, mounted, idVars, msVars, stVars, trVars, gpVars, rtVars, gcVars, lgVars>>

\* action_show_balance_update_screen lines 710-732 and the screen's __init__:
\* the balances shown, one for every item, taken from the snapshot of
\* today_str, else from the first snapshot, else 0.0
ShownBalances(financial_items, snapshots, today_str) ==
    LET dated == {i \in 1..Len(snapshots) : snapshots[i].date = today_str}
        balances_for_today_screen ==
            IF dated # {} THEN snapshots[SetMin(dated)].balances
            ELSE IF snapshots # <<>> THEN snapshots[1].balances
            ELSE ZeroBalances(financial_items)
    IN [i \in 1..Len(financial_items) |->
           Balance(financial_items[i].id,
                   BalanceOf(balances_for_today_screen, financial_items[i].id))]

\* what QuickBalanceUpdateScreen dismisses with: nothing (closed), an empty
\* list (applied with is_dirty unset, no value was changed), or a balance
\* for every item in item order, each the value shown or a value typed
BalanceScreenResults(financial_items, current_balances) ==
    {Absent, Some(<<>>)} \cup
    {Some([i \in 1..Len(financial_items) |-> Balance(financial_items[i].id, f[i])]) :
        f \in {g \in [1..Len(financial_items) ->
                         BalanceValues \cup {current_balances[i].balance :
                                                 i \in 1..Len(current_balances)}] :
                  \A i \in 1..Len(financial_items) :
                      g[i] \in BalanceValues \cup {current_balances[i].balance}}}

\* lines 677-692 without the search for a snapshot of today_str: the balances
\* are always appended as a new snapshot
RecordForToday_always_appending(snapshots, today_str, new_balances_for_today) ==
    SortNewestFirst(Append(snapshots, Snapshot(today_str, new_balances_for_today)))

\* _handle_balance_update_result lines 677-692: the balances recorded as the
\* snapshot of today_str, the list sorted newest first
RecordForToday(snapshots, today_str, new_balances_for_today) ==
    LET dated == {i \in 1..Len(snapshots) : snapshots[i].date = today_str}
    IN SortNewestFirst(
           IF dated # {}
           THEN [snapshots EXCEPT ![SetMin(dated)].balances = new_balances_for_today]
           ELSE Append(snapshots, Snapshot(today_str, new_balances_for_today)))

\* action_show_balance_update_screen and _handle_balance_update_result
BalanceUpdate ==
    /\ Handled
    /\ mounted
    /\ IF self.financial_items = <<>>
       THEN /\ notifications' = <<"No Items">>
            /\ UNCHANGED <<self, disk>>
            /\ write_failed' = FALSE
       ELSE \E updated_balances \in
                   BalanceScreenResults(self.financial_items,
                                        ShownBalances(self.financial_items, self.snapshots,
                                                      today)),
               write_ok \in BOOLEAN :
               IF ~IsPresent(updated_balances)
               THEN /\ notifications' = <<"Balance Update">>
                    /\ UNCHANGED <<self, disk>>
                    /\ write_failed' = FALSE
               ELSE LET recorded ==
                            [self EXCEPT
                                !.snapshots = RecordForToday(@, today, Val(updated_balances)),
                                !.current_date = today,
                                !.current_snapshot_balances = Val(updated_balances)]
                        shown == update_dashboard(recorded)
                    IN /\ write_failed' = ~write_ok
                       /\ disk' = save_historical_data(disk, shown.app,
                                                       shown.app.current_data_file, write_ok)
                       /\ self' = [shown.app EXCEPT !.unsaved_changes = TRUE]
                       /\ notifications' =
                              shown.notes \o <<"Balances Updated", "Save Successful">>
    /\ UNCHANGED <<last_opened_file, today, mounted, idVars, msVars, stVars, trVars, gpVars, rtVars, gcVars, lgVars>>

\* _handle_asset_management_result lines 767-773: a balance for every item,
\* the existing one or 0.0
BalancesForItems(financial_items, current_snapshot_balances) ==
    [i \in 1..Len(financial_items) |->
        Balance(financial_items[i].id,
                BalanceOf(current_snapshot_balances, financial_items[i].id))]

\* lines 778-786 without the filter of line 780: the balances of deleted
\* items stay in the snapshots
ReconcileSnapshot_keeping_deleted(snapshot, financial_items, current_date, id_order) ==
    LET item_ids == {financial_items[i].id : i \in 1..Len(financial_items)}
        held == {snapshot.balances[i].item_id : i \in 1..Len(snapshot.balances)}
        lacking == SelectSeq(id_order, LAMBDA id : id \in item_ids /\ id \notin held)
    IN IF snapshot.date = current_date
       THEN [snapshot EXCEPT !.balances =
                @ \o [i \in 1..Len(lacking) |-> Balance(lacking[i], 0)]]
       ELSE snapshot

\* lines 778-786: balances of deleted items are dropped from every snapshot;
\* the snapshot of the current date gets a 0.0 for every item it lacks, in
\* the iteration order of the set of item ids
ReconcileSnapshot(snapshot, financial_items, current_date, id_order) ==
    LET item_ids == {financial_items[i].id : i \in 1..Len(financial_items)}
        kept == SelectSeq(snapshot.balances, LAMBDA bal : bal.item_id \in item_ids)
        held == {kept[i].item_id : i \in 1..Len(kept)}
        lacking == SelectSeq(id_order, LAMBDA id : id \in item_ids /\ id \notin held)
    IN IF snapshot.date = current_date
       THEN [snapshot EXCEPT !.balances =
                kept \o [i \in 1..Len(lacking) |-> Balance(lacking[i], 0)]]
       ELSE [snapshot EXCEPT !.balances = kept]

\* action_show_asset_management_screen and _handle_asset_management_result
AssetManagement ==
    /\ Handled
    /\ mounted
    /\ IF self.categories = <<>>
       THEN /\ notifications' = <<"Error">>
            /\ UNCHANGED <<self, disk>>
            /\ write_failed' = FALSE
       ELSE \E updated_financial_items \in
                   AssetScreenResults(self.financial_items, self.categories),
               id_order \in IdOrders, write_ok \in BOOLEAN :
               IF ~IsPresent(updated_financial_items)
               THEN /\ notifications' = <<"Asset Management">>
                    /\ UNCHANGED <<self, disk>>
                    /\ write_failed' = FALSE
               ELSE IF /\ ~(Val(updated_financial_items) = <<>> /\ self.financial_items = <<>>)
                       /\ Val(updated_financial_items) = self.financial_items
               THEN /\ notifications' = <<"Asset Management">>
                    /\ UNCHANGED <<self, disk>>
                    /\ write_failed' = FALSE
               ELSE LET items == Val(updated_financial_items)
                        updated ==
                            [self EXCEPT
                                !.financial_items = items,
                                !.current_snapshot_balances = BalancesForItems(items, @),
                                !.snapshots =
                                    [k \in 1..Len(@) |->
                                        ReconcileSnapshot(@[k], items, self.current_date,
                                                          id_order)]]
                        shown == update_dashboard(updated)
                    IN /\ write_failed' = ~write_ok
                       /\ disk' = save_historical_data(disk, shown.app,
                                                       shown.app.current_data_file, write_ok)
                       /\ self' = [shown.app EXCEPT !.unsaved_changes = TRUE]
                       /\ notifications' =
                              shown.notes \o <<"Asset Management", "Save Successful">>
    /\ UNCHANGED <<last_opened_file, today, mounted, idVars, msVars, stVars, trVars, gpVars, rtVars, gcVars, lgVars>>

\* action_set_financial_goal and _handle_financial_goal_result: the screen
\* dismisses with a goal or with nothing
FinancialGoal ==
    /\ Handled
    /\ mounted
    /\ \E result \in {Absent, Some([target_net_worth |-> GoalValue])},
          write_ok \in BOOLEAN :
          IF ~IsPresent(result)
          THEN /\ notifications' = <<"Cancelled">>
               /\ UNCHANGED <<self, disk>>
               /\ write_failed' = FALSE
          ELSE LET saved == [self EXCEPT !.financial_goal = result,
                                         !.unsaved_changes = FALSE]
                   shown == update_dashboard(saved)
               IN /\ write_failed' = ~write_ok
                  /\ disk' = save_historical_data(disk, saved, saved.current_data_file,
                                                  write_ok)
                  /\ self' = shown.app
                  /\ notifications' = <<"Goal Set", "Save Successful">> \o shown.notes
    /\ UNCHANGED <<last_opened_file, today, mounted, idVars, msVars, stVars, trVars, gpVars, rtVars, gcVars, lgVars>>

\* what ItemTargetsScreen dismisses with: nothing, or a copy of the items
\* with the target of one of them set or cleared
ItemTargetResults(financial_items) ==
    {Absent} \cup
    {Some([financial_items EXCEPT ![k] = WithTargetBalance(@, t)]) :
        k \in 1..Len(financial_items), t \in {Absent, Some(TargetValue)}}

\* action_show_item_targets_screen and _handle_item_targets_result
ItemTargets ==
    /\ Handled
    /\ mounted
    /\ IF self.financial_items = <<>>
       THEN /\ notifications' = <<"No Items">>
            /\ UNCHANGED <<self, disk>>
            /\ write_failed' = FALSE
       ELSE \E updated_items \in ItemTargetResults(self.financial_items),
               write_ok \in BOOLEAN :
               IF ~IsPresent(updated_items)
               THEN /\ notifications' = <<"Item Targets">>
                    /\ UNCHANGED <<self, disk>>
                    /\ write_failed' = FALSE
               ELSE LET saved == [self EXCEPT !.financial_items = Val(updated_items),
                                              !.unsaved_changes = FALSE]
                        shown == update_dashboard(saved)
                    IN /\ write_failed' = ~write_ok
                       /\ disk' = save_historical_data(disk, saved, saved.current_data_file,
                                                       write_ok)
                       /\ self' = shown.app
                       /\ notifications' =
                              <<"Save Successful">> \o shown.notes \o <<"Item Targets Saved">>
    /\ UNCHANGED <<last_opened_file, today, mounted, idVars, msVars, stVars, trVars, gpVars, rtVars, gcVars, lgVars>>

\* midnight passes: datetime.now() moves to the next day
AdvanceDay ==
    /\ today < FirstToday + MaxDays - 1
    /\ today' = today + 1
    /\ UNCHANGED <<self, disk, last_opened_file, mounted, notifications, events, write_failed,
                   idVars, msVars, stVars, trVars, gpVars, rtVars, gcVars, lgVars>>


\* ------------------------------------------------------------------------
\* The goal projection applied to a goal, a net worth and three averages
\* ------------------------------------------------------------------------
\* None, a dictionary without a target, and two targets
GoalInputs ==
    {Absent, Some([target_net_worth |-> Absent]),
     Some([target_net_worth |-> Some(50000)]),
     Some([target_net_worth |-> Some(20000)])}

GoalNetWorthInputs == {-1000, 20000, 49990, 50000, 60000}

\* averages as calculate_enhanced_trends reports them: absent, or a change
\* divided by 3, 6 or 12
AverageInputs ==
    {Absent, Some(Frac(0, 1)), Some(Frac(-500, 1)), Some(Frac(1000, 1)),
     Some(Frac(3003, 3)), Some(Frac(2500, 3)), Some(Frac(300000, 12))}

TrendsRaw(avg_3m, avg_6m, avg_12m) ==
    << [key |-> "avg_3m_raw", value |-> avg_3m],
       [key |-> "avg_6m_raw", value |-> avg_6m],
       [key |-> "avg_12m_raw", value |-> avg_12m] >>

GpInit ==
    /\ \E financial_goal \in GoalInputs, current_net_worth \in GoalNetWorthInputs,
          avg_3m \in AverageInputs, avg_6m \in AverageInputs, avg_12m \in AverageInputs :
          gp_in = [financial_goal |-> financial_goal,
                   current_net_worth |-> current_net_worth,
                   trends_raw |-> TrendsRaw(avg_3m, avg_6m, avg_12m)]
    /\ gp_out = [called |-> FALSE, ret |-> base_result]

GpIdle ==
    /\ gp_in = [financial_goal |-> Absent, current_net_worth |-> 0,
                trends_raw |-> TrendsRaw(Absent, Absent, Absent)]
    /\ gp_out = [called |-> FALSE, ret |-> base_result]

CalculateGoalProjection ==
    /\ ~gp_out.called
    /\ gp_out' = [called |-> TRUE,
                  ret |-> calculate_goal_projection(gp_in.financial_goal,
                                                    gp_in.current_net_worth,
                                                    gp_in.trends_raw)]
    /\ UNCHANGED <<gp_in, idVars, msVars, stVars, trVars, rtVars, appVars, gcVars, lgVars>>

\* ------------------------------------------------------------------------
\* The data store: an in-memory model saved to a file and the file loaded
\* ------------------------------------------------------------------------
\* an item as AssetFormScreen builds it, without a target_balance key
ItemNoTargetKey ==
    [id |-> "item_c", name |-> "ISA", category_id |-> "cat_3",
     liquid |-> TRUE, type |-> "asset"]

StoredItemLists ==
    {<<>>, <<ItemA>>,
     <<ItemNoTargetKey, [ItemB EXCEPT !.target_balance = Some(TargetValue)]>>}

StoredSnapshots ==
    { Snapshot(DateOf(2024, 1, 5), <<Balance("item_a", 1500)>>),
      Snapshot(DateOf(2024, 2, 1), <<Balance("item_a", 1000), Balance("item_b", -2000)>>),
      Snapshot(DateOf(2024, 3, 1), <<>>) }

\* what the app may hold in memory
StoredModels ==
    {Document(categories, financial_items, snapshots, achieved_milestones, financial_goal) :
        categories \in {<<>>, DefaultCategories},
        financial_items \in StoredItemLists,
        snapshots \in BoundedSeq(StoredSnapshots, MaxHistory),
        achieved_milestones \in {<<>>, <<0, 1000>>},
        financial_goal \in {Absent, Some([target_net_worth |-> GoalValue])}}

\* a document written by an earlier version: no achieved_milestones, no
\* financial_goal, items without target_balance
OlderDocument ==
    Document(DefaultCategories, <<ItemNoTargetKey>>,
             <<Snapshot(DateOf(2024, 1, 5), <<Balance("item_c", 1500)>>)>>, <<>>, Absent)

\* what the path may hold before the call
StoredFiles ==
    {MissingFile, CorruptFile, LegacyListFile,
     ObjectFile(RequiredKeys, OlderDocument),
     DataFile(SavedDocument)}
        \cup {ObjectFile(DocumentKeys \ {k}, SavedDocument) : k \in RequiredKeys}

RtInit ==
    /\ rt_model \in StoredModels
    /\ rt_disk \in [{DATA_FILENAME} -> StoredFiles]
    /\ rt_saved = "no"
    /\ rt_out = [called |-> FALSE, ret |-> default_return]

RtIdle ==
    /\ rt_model = default_return
    /\ rt_disk = [p \in {DATA_FILENAME} |-> MissingFile]
    /\ rt_saved = "no"
    /\ rt_out = [called |-> FALSE, ret |-> default_return]

SaveHistoricalData ==
    /\ rt_saved = "no"
    /\ ~rt_out.called
    /\ \E write_ok \in BOOLEAN :
          /\ rt_disk' = save_historical_data(rt_disk, rt_model, DATA_FILENAME, write_ok)
          /\ rt_saved' = IF write_ok THEN "written" ELSE "failed"
    /\ UNCHANGED <<rt_model, rt_out, idVars, msVars, stVars, trVars, gpVars, appVars, gcVars, lgVars>>

LoadHistoricalData ==
    /\ ~rt_out.called
    /\ rt_out' = [called |-> TRUE, ret |-> load_historical_data(rt_disk, DATA_FILENAME)]
    /\ UNCHANGED <<rt_model, rt_disk, rt_saved, idVars, msVars, stVars, trVars, gpVars,
                   appVars, gcVars, lgVars>>

\* ------------------------------------------------------------------------
\* The category classifier applied to a name and a category list
\* ------------------------------------------------------------------------
\* longest category list handed to the classifier
MaxGuessCategories == 3

\* item names as a user types them
GuessNames ==
    { <<"M", "y", " ", "I", "S", "A">>,
      <<"i", "s", "a">>,
      <<"B", "u", "s", "i", "n", "e", "s", "s", " ", "L", "o", "a", "n">>,
      <<"l", "o", "a", "n", " ", "f", "o", "r", " ", "t", "h", "e", " ", "b", "u", "s", "i", "n", "e", "s", "s">>,
      <<"S", "A", "V", "E", "R">>,
      <<"C", "a", "s", "h">>,
      <<>>,
      <<"I", "s", " ", "a">> }

\* categories with the keywords the default table and the category
\* management give them (lower case)
GuessCategories ==
    { [id |-> "cat_3", name |-> <<"I", "S", "A">>,
       keywords |-> <<<<"i", "s", "a">>, <<"s", "s", "i", "s", "a">>>>],
      [id |-> "cat_4", name |-> <<"S", "a", "v", "i", "n", "g", "s">>,
       keywords |-> <<<<"s", "a", "v", "i", "n", "g", "s">>, <<"s", "a", "v", "e", "r">>>>],
      [id |-> "cat_8", name |-> <<"L", "o", "a", "n">>,
       keywords |-> <<<<"l", "o", "a", "n">>, <<"c", "a", "r", " ", "f", "i", "n", "a", "n", "c", "e">>>>],
      [id |-> "cat_10", name |-> <<"B", "u", "s", "i", "n", "e", "s", "s">>,
       keywords |-> <<<<"b", "u", "s", "i", "n", "e", "s", "s">>>>],
      [id |-> "cat_11", name |-> <<"O", "t", "h", "e", "r">>,
       keywords |-> <<>>] }

\* the lists of at most n of these categories, none twice, in every order
GuessCategoryLists(n) ==
    {l \in BoundedSeq(GuessCategories, n) : \A i, j \in 1..Len(l) : l[i] = l[j] => i = j}

GcInit ==
    /\ gc_in \in [item_name : GuessNames,
                  categories_list : GuessCategoryLists(MaxGuessCategories)]
    /\ gc_out = [called |-> FALSE, ret |-> Absent]

GcIdle ==
    /\ gc_in = [item_name |-> <<>>, categories_list |-> <<>>]
    /\ gc_out = [called |-> FALSE, ret |-> Absent]

GuessCategory ==
    /\ ~gc_out.called
    /\ gc_out' = [called |-> TRUE,
                  ret |-> guess_category(gc_in.item_name, gc_in.categories_list)]
    /\ UNCHANGED <<gc_in, idVars, msVars, stVars, trVars, gpVars, rtVars, lgVars, appVars>>

\* ------------------------------------------------------------------------
\* The migration applied to legacy records, then category management
\* ------------------------------------------------------------------------
\* legacy records handed to the migration, category operations followed
MaxLegacyRecords == 2
MaxCategoryOps == 2

\* legacy asset entries: a liquid asset, a loan, two items whose categories
\* differ in letter case only, an entry saved without a category, and the
\* first asset again under another category
EntryCash ==
    [name |-> Some(<<"C", "a", "s", "h">>), category |-> Some(<<"S", "a", "v", "i", "n", "g", "s">>),
       liquid |-> Some(TRUE), balance |-> Some(100)]
EntryLoan ==
    [name |-> Some(<<"C", "a", "r">>), category |-> Some(<<"L", "o", "a", "n">>),
       liquid |-> Some(FALSE), balance |-> Some(-500)]
EntryIsaUpper ==
    [name |-> Some(<<"P", "o", "t">>), category |-> Some(<<"I", "S", "A">>),
       liquid |-> Some(TRUE), balance |-> Some(200)]
EntryIsaLower ==
    [name |-> Some(<<"B", "o", "n", "d", "s">>), category |-> Some(<<"i", "s", "a">>),
       liquid |-> Absent, balance |-> Some(300)]
EntryNoCategory ==
    [name |-> Some(<<"G", "o", "l", "d">>), category |-> Absent,
       liquid |-> Some(FALSE), balance |-> Some(50)]
EntryCashMoved ==
    [name |-> Some(<<"C", "a", "s", "h">>), category |-> Some(<<"L", "o", "a", "n">>),
       liquid |-> Some(FALSE), balance |-> Some(100)]

LegacyAssetLists ==
    { <<>>, <<EntryCash>>, <<EntryLoan, EntryCash>>, <<EntryIsaUpper>>,
      <<EntryIsaUpper, EntryIsaLower>>, <<EntryCash, EntryNoCategory>>,
      <<EntryCashMoved, EntryLoan>> }

LegacyDates == {DateOf(2024, 1, 5), DateOf(2024, 2, 1)}

LegacyRecords == [date : {Some(d) : d \in LegacyDates}, assets : LegacyAssetLists]

\* names and keywords typed in the category management
CategoryNameInputs == {<<"I", "S", "A">>, <<"i", "s", "a">>, <<"B", "o", "n", "d", "s">>, <<>>}
KeywordInputs == {<<>>, <<<<"B", "o", "n", "d", "s">>, <<"g", "i", "l", "t", "s">>>>}

LgInit ==
    /\ lg_in \in BoundedSeq(LegacyRecords, MaxLegacyRecords)
    /\ lg_out = [called |-> FALSE, ret |-> default_return]
    /\ lg_categories = <<>>
    /\ lg_steps = 0

\* convert_data; the categories it produced are the list managed afterwards
ConvertData ==
    /\ ~lg_out.called
    /\ lg_out' = [called |-> TRUE, ret |-> convert_data(lg_in)]
    /\ lg_categories' = convert_data(lg_in).categories
    /\ UNCHANGED <<lg_in, lg_steps, idVars, msVars, stVars, trVars, gpVars, rtVars, gcVars,
                   appVars>>

\* one more operation of the category management has run
CategoryManaged ==
    /\ lg_out.called
    /\ lg_steps < MaxCategoryOps
    /\ lg_steps' = lg_steps + 1
    /\ UNCHANGED <<lg_in, lg_out, idVars, msVars, stVars, trVars, gpVars, rtVars, gcVars,
                   appVars>>

AddCategory ==
    /\ CategoryManaged
    /\ \E new_name \in CategoryNameInputs, keywords \in KeywordInputs :
          lg_categories' = add_category(lg_categories, new_name, keywords)

EditCategoryName ==
    /\ CategoryManaged
    /\ \E k \in 1..Len(lg_categories), new_name \in CategoryNameInputs :
          lg_categories' = edit_category_name(lg_categories, k, new_name)

DeleteCategory ==
    /\ CategoryManaged
    /\ \E k \in 1..Len(lg_categories) :
          lg_categories' = delete_category(lg_categories, lg_out.ret.financial_items, k)

LgIdle ==
    /\ lg_in = <<>>
    /\ lg_out = [called |-> FALSE, ret |-> default_return]
    /\ lg_categories = <<>>
    /\ lg_steps = 0

\* ------------------------------------------------------------------------
\* Specifications
\* ------------------------------------------------------------------------
InitIds == IdInit /\ MsIdle /\ StIdle /\ TrIdle /\ GpIdle /\ RtIdle /\ GcIdle /\ LgIdle /\ AppIdle

SpecIds == InitIds /\ [][GenerateUniqueId \/ GenerateId]_vars

InitMilestones == MsInit /\ IdIdle /\ StIdle /\ TrIdle /\ GpIdle /\ RtIdle /\ GcIdle /\ LgIdle /\ AppIdle

SpecMilestones == InitMilestones /\ [][EvaluateMilestones]_vars

InitStats == StInit /\ IdIdle /\ MsIdle /\ TrIdle /\ GpIdle /\ RtIdle /\ GcIdle /\ LgIdle /\ AppIdle

SpecStats ==
    InitStats /\ [][CalculateSummaryStats \/ GetNetWorthForSnapshot \/ DashboardNetWorth]_vars

InitTrends == TrInit /\ IdIdle /\ MsIdle /\ StIdle /\ GpIdle /\ RtIdle /\ GcIdle /\ LgIdle /\ AppIdle

SpecTrends == InitTrends /\ [][CalculateEnhancedTrends]_vars

InitGoal ==
    GpInit /\ IdIdle /\ MsIdle /\ StIdle /\ TrIdle /\ RtIdle /\ GcIdle /\ LgIdle /\ AppIdle

SpecGoal == InitGoal /\ [][CalculateGoalProjection]_vars

InitStore ==
    RtInit /\ IdIdle /\ MsIdle /\ StIdle /\ TrIdle /\ GpIdle /\ GcIdle /\ LgIdle /\ AppIdle

SpecStore == InitStore /\ [][SaveHistoricalData \/ LoadHistoricalData]_vars

Init ==
    AppInit /\ IdIdle /\ MsIdle /\ StIdle /\ TrIdle /\ GpIdle /\ RtIdle /\ GcIdle /\ LgIdle

Next ==
    \/ OnMount \/ SaveData \/ OpenFile \/ SaveAs \/ NewFile
    \/ BalanceUpdate \/ AssetManagement \/ FinancialGoal \/ ItemTargets
    \/ AdvanceDay

Spec == Init /\ [][Next]_vars

InitGuess ==
    GcInit /\ IdIdle /\ MsIdle /\ StIdle /\ TrIdle /\ GpIdle /\ RtIdle /\ LgIdle /\ AppIdle

SpecGuess == InitGuess /\ [][GuessCategory]_vars

InitLegacy ==
    LgInit /\ IdIdle /\ MsIdle /\ StIdle /\ TrIdle /\ GpIdle /\ RtIdle /\ GcIdle /\ AppIdle

SpecLegacy ==
    InitLegacy /\ [][ConvertData \/ AddCategory \/ EditCategoryName \/ DeleteCategory]_vars

\* ------------------------------------------------------------------------
\* Properties
\* ------------------------------------------------------------------------
\* C1: the generated id is the prefix followed by an integer strictly greater
\* than every integer parsed from an existing id with that prefix, and it
\* differs from every id of the list; ids whose remainder does not parse are
\* ignored.
C1_UniqueId ==
    id_out.fn # None =>
        LET rest == SubSeq(id_out.id, Len(id_prefix) + 1, Len(id_out.id)) IN
        /\ StartsWith(id_out.id, id_prefix)
        /\ IntParses(rest)
        /\ \A i \in 1..Len(id_list) :
              LET r == SubSeq(id_list[i], Len(id_prefix) + 1, Len(id_list[i])) IN
              (StartsWith(id_list[i], id_prefix) /\ IntParses(r))
                  => IntValue(rest) > IntValue(r)
        /\ \A i \in 1..Len(id_list) : id_list[i] # id_out.id

\* a list holding an id whose remainder does not parse and one that fixes
\* the result
C1_Witness ==
    /\ id_out.fn = "generate_unique_id"
    /\ Len(id_list) = 2
    /\ \E i \in 1..2 : StartsWith(id_list[i], id_prefix)
          /\ ~IntParses(SubSeq(id_list[i], Len(id_prefix) + 1, Len(id_list[i])))
    /\ \E i \in 1..2 : StartsWith(id_list[i], id_prefix)
          /\ IntParses(SubSeq(id_list[i], Len(id_prefix) + 1, Len(id_list[i])))
          /\ id_out.id = id_prefix \o
               IntToStr(IntValue(SubSeq(id_list[i], Len(id_prefix) + 1,
                                        Len(id_list[i]))) + 1)

Thresholds(defs) == {defs[i].value : i \in 1..Len(defs)}

UpdatedAchieved == Range(ms_achieved) \cup Range(ms_out.ret.result.newly_achieved_milestones)

C9_NextMilestone ==
    ms_out.called =>
        LET open == Thresholds(ms_defs) \ UpdatedAchieved IN
        ms_out.ret.result.next_milestone_value =
            IF open = {} THEN Absent ELSE Some(SetMin(open))

\* the achieved list holds a threshold above the net worth, which is skipped
C9_Witness ==
    /\ ms_out.called
    /\ ms_current = 500
    /\ ms_achieved = <<1000, 25000>>
    /\ ms_out.ret.result.next_milestone_value = Some(10000)

RECURSIVE SumOfAllBalances(_)
SumOfAllBalances(balances) ==
    IF balances = <<>> THEN 0
    ELSE Head(balances).balance + SumOfAllBalances(Tail(balances))

\* C3: for all inputs to calculate_summary_stats the returned net_worth is
\* total_assets_value + total_debts_value.
C3_NetWorthIsAssetsPlusDebts ==
    st_out.fn = "calculate_summary_stats" =>
        st_out.stats.net_worth =
            st_out.stats.total_assets_value + st_out.stats.total_debts_value

\* an asset and a debt are both counted
C3_Witness ==
    /\ st_out.fn = "calculate_summary_stats"
    /\ st_out.stats.total_assets_value = 1500
    /\ st_out.stats.total_debts_value = -2000
    /\ st_out.stats.net_worth = -500

\* C4: the net worth reported for a snapshot is the sum of all its balance
\* entries, whichever of calculate_summary_stats, get_net_worth_for_snapshot
\* and the dashboard computes it, also when a balance's item_id is the id of
\* no financial item.
C4_NetWorthIsSumOfBalances ==
    (st_out.fn # None /\ st_in.financial_items # <<>>) =>
        st_out.net_worth = SumOfAllBalances(st_in.current_snapshot_balances)

\* the calendar months of the snapshots whose date parses
MonthsWithSnapshot(snapshots) ==
    {MonthYearKey(snapshots[i].date) :
        i \in {j \in 1..Len(snapshots) : DateParses(snapshots[j].date)}}

\* the month n calendar months before the month `key`
MonthsBack(key, n) ==
    LET index == (key \div 100) * 12 + (key % 100) - 1 - n
    IN (index \div 12) * 100 + (index % 12) + 1

\* the snapshots of a month, by position in the list
IndicesOfMonth(snapshots, key) ==
    {i \in 1..Len(snapshots) :
        DateParses(snapshots[i].date) /\ MonthYearKey(snapshots[i].date) = key}

\* the month's first snapshot in list order
FirstIndexOfMonth(snapshots, key) == SetMin(IndicesOfMonth(snapshots, key))

\* the month's latest-dated snapshot, the first such in list order
LatestIndexOfMonth(snapshots, key) ==
    LET of_month == IndicesOfMonth(snapshots, key)
    IN SetMin({i \in of_month :
                  \A j \in of_month : snapshots[j].date <= snapshots[i].date})

MonthlyByFirst(snapshots) ==
    LET desc == SetToDescSeq(MonthsWithSnapshot(snapshots)) IN
    [k \in 1..Len(desc) |->
        [month |-> desc[k],
         net_worth |-> SumOfAllBalances(
                           snapshots[FirstIndexOfMonth(snapshots, desc[k])].balances)]]

MonthlyByLatest(snapshots) ==
    LET desc == SetToDescSeq(MonthsWithSnapshot(snapshots)) IN
    [k \in 1..Len(desc) |->
        [month |-> desc[k],
         net_worth |-> SumOfAllBalances(
                           snapshots[LatestIndexOfMonth(snapshots, desc[k])].balances)]]

IsNewestFirst(snapshots) ==
    \A i \in 1..Len(snapshots) : \A j \in i..Len(snapshots) :
        snapshots[i].date >= snapshots[j].date

TrendWindows == {3, 6, 12}

AverageOf(ret, n) ==
    IF n = 3 THEN ret.avg_3m_raw ELSE IF n = 6 THEN ret.avg_6m_raw ELSE ret.avg_12m_raw

\* C5: for each N of 3, 6 and 12 the N-month average is absent when fewer
\* than N+1 distinct calendar months have a snapshot, and otherwise it is
\* (net worth of the current month - net worth of the month N back) / N.
\* Where the month N calendar months back has no snapshot the value is left
\* open.
C5_AverageMonthlyChange ==
    (tr_out.called /\ tr_in.financial_items # <<>>) =>
        \A n \in TrendWindows :
            LET months == MonthsWithSnapshot(tr_in.snapshots)
                monthly == MonthlyByFirst(tr_in.snapshots)
                current == SetMax(months)
                back == MonthsBack(current, n)
            IN IF Cardinality(months) < n + 1
               THEN AverageOf(tr_out.ret, n) = Absent
               ELSE /\ IsPresent(AverageOf(tr_out.ret, n))
                    /\ back \in months =>
                          AverageOf(tr_out.ret, n) =
                              Some(Frac(MonthlyAt(monthly, current)
                                            - MonthlyAt(monthly, back), n))

\* C6: with snapshots only on 2024-01-01 (net worth 10000) and 2024-04-01
\* (net worth 13000) the 3-month average monthly change is 1000: the months
\* without a snapshot count as elapsed months.
C6_GapScenario ==
    (tr_out.called /\ tr_in.snapshots = GapScenarioHistory /\ tr_in.financial_items # <<>>)
        => tr_out.ret.avg_3m_raw = Some(Frac(1000, 1))

\* C7 as stated: whatever the order of the list, the result is the one built
\* from the latest-dated snapshot of each calendar month.
C7_LatestOfMonthInAnyOrder ==
    (tr_out.called /\ tr_in.financial_items # <<>>) =>
        tr_out.ret = TrendsFromMonthly(MonthlyByLatest(tr_in.snapshots))

\* C7: the result is built from the first snapshot of each calendar month in
\* the order of the list; for a list ordered newest first that is the
\* latest-dated snapshot of the month.
C7_FirstOfMonthInListOrder ==
    (tr_out.called /\ tr_in.financial_items # <<>>) =>
        /\ tr_out.ret = TrendsFromMonthly(MonthlyByFirst(tr_in.snapshots))
        /\ IsNewestFirst(tr_in.snapshots) =>
              tr_out.ret = TrendsFromMonthly(MonthlyByLatest(tr_in.snapshots))

\* a list ordered newest first whose current month has two snapshots, and
\* enough months for the 3-month average
C7_Witness ==
    /\ tr_out.called
    /\ tr_in.financial_items # <<>>
    /\ IsNewestFirst(tr_in.snapshots)
    /\ Len(tr_in.snapshots) >= 5
    /\ MonthYearKey(tr_in.snapshots[1].date) = MonthYearKey(tr_in.snapshots[2].date)
    /\ tr_in.snapshots[1].date > tr_in.snapshots[2].date
    /\ IsPresent(tr_out.ret.avg_3m_raw)
    /\ tr_out.ret.current_month_net_worth =
          Some(SumOfAllBalances(tr_in.snapshots[1].balances))

\* the net worth the dashboard feeds to the milestone tracker
CurrentNetWorth ==
    DashboardCurrentNetWorth(self.current_snapshot_balances, self.financial_items)

\* a step of the running app that neither opens a file nor creates one: the
\* loaded document stays the one worked on
KeepsDocument ==
    /\ mounted
    /\ \A i \in 1..Len(notifications') :
          notifications'[i] \notin {"File Opened", "New File Created"}

\* C2: across the dashboard evaluations on one loaded document, after a
\* balance update, item management, a goal or target edit or a save, the
\* app's achieved_milestones only grows: every value in it before the
\* handler is in it afterwards, whatever the net worth has become.
C2_AchievedOnlyGrows ==
    [][KeepsDocument =>
          \A v \in Range(self.achieved_milestones) :
              v \in Range(self'.achieved_milestones)]_vars

\* a balance update has brought the net worth below 0 and the 1k milestone
\* is still recorded
C2_Witness ==
    /\ mounted
    /\ \E i \in 1..Len(notifications) : notifications[i] = "Balances Updated"
    /\ self.snapshots # <<>>
    /\ CurrentNetWorth < 0
    /\ 1000 \in Range(self.achieved_milestones)

\* ------------------------------------------------------------------------
\* The terminal state of the milestone tracker
\* ------------------------------------------------------------------------
\* C11: whenever every defined threshold is in the updated achieved set
\* (the list passed together with the newly achieved values), the result
\* reports all_milestones_achieved with a progress of 100, whatever the
\* current net worth is.
C11_AllAchievedIsTerminal ==
    (ms_out.called /\ Thresholds(ms_defs) \subseteq UpdatedAchieved) =>
        /\ ms_out.ret.result.all_milestones_achieved
        /\ FracEq(ms_out.ret.result.progress_percent, Frac(100, 1))

\* ------------------------------------------------------------------------
\* The goal projection
\* ------------------------------------------------------------------------
GoalTarget == Val(gp_in.financial_goal).target_net_worth

GoalIsSet == IsPresent(gp_in.financial_goal) /\ IsPresent(GoalTarget)

GoalUnreached == GoalIsSet /\ gp_in.current_net_worth < Val(GoalTarget)

PositiveTrends ==
    {i \in 1..Len(gp_in.trends_raw) :
        /\ IsPresent(gp_in.trends_raw[i].value)
        /\ Val(gp_in.trends_raw[i].value)[1] > 0}

\* (target - current) / average for the i-th trend period
MonthsToGoal(i) ==
    Frac((Val(GoalTarget) - gp_in.current_net_worth) * Val(gp_in.trends_raw[i].value)[2],
         Val(gp_in.trends_raw[i].value)[1])

TrendOfLabel(period_label) ==
    CHOOSE i \in 1..Len(gp_in.trends_raw) :
        PeriodLabel(gp_in.trends_raw[i].key) = period_label

ThirtyMonths == <<"Approx.", "2", "years", "and", "6", "months">>

\* C12: with a goal set and the net worth below the target, there is exactly
\* one projection for each of the 3/6/12-month averages that is a positive
\* number, its duration is that of (target - current) / average months
\* (target 50000, current 20000, average 1000: 30 months, 2 years and 6
\* months), and the projections are in ascending order of
\* (target - current) / average.
C12_ProjectionsShortestFirst ==
    (gp_out.called /\ GoalUnreached) =>
        LET projections == gp_out.ret.individual_projections IN
        /\ Len(projections) = Cardinality(PositiveTrends)
        /\ {TrendOfLabel(projections[k].period_label) : k \in 1..Len(projections)}
              = PositiveTrends
        /\ \A k \in 1..Len(projections) :
              projections[k].time_to_goal_str =
                  TimeToGoalStr(MonthsToGoal(TrendOfLabel(projections[k].period_label)))
        /\ (Val(GoalTarget) = 50000 /\ gp_in.current_net_worth = 20000
               /\ gp_in.trends_raw[1].value = Some(Frac(1000, 1)))
              => \E k \in 1..Len(projections) :
                    /\ projections[k].period_label = "3M Avg"
                    /\ projections[k].time_to_goal_str = ThirtyMonths
        /\ \A k \in 1..Len(projections) - 1 :
              FracLeq(MonthsToGoal(TrendOfLabel(projections[k].period_label)),
                      MonthsToGoal(TrendOfLabel(projections[k + 1].period_label)))

NoProjectionMessages ==
    {"Projection N/A (insufficient trend data).",
     "Projection N/A (trends are zero or negative)."}

\* C13: with no goal target set the result has the 'not set' status and no
\* projections; with the net worth at or above the target it is 'already
\* reached' with no projections, whatever the trends are; with the goal
\* unreached and no positive average (absent, zero or negative) it has a
\* 'projection not available' status and no projections; and no projection
\* ever carries a negative duration or comes from an average that is not
\* above zero.
C13_NoMisleadingProjection ==
    gp_out.called =>
        LET ret == gp_out.ret IN
        /\ ~GoalIsSet =>
              /\ ret.overall_status_message = "Financial goal not set."
              /\ ret.individual_projections = <<>>
              /\ ~ret.goal_already_reached
        /\ (GoalIsSet /\ ~GoalUnreached) =>
              /\ ret.goal_already_reached
              /\ ret.overall_status_message = "Goal already reached!"
              /\ ret.individual_projections = <<>>
        /\ (GoalUnreached /\ PositiveTrends = {}) =>
              /\ ret.overall_status_message \in NoProjectionMessages
              /\ ret.individual_projections = <<>>
              /\ ~ret.goal_already_reached
        /\ \A k \in 1..Len(ret.individual_projections) :
              /\ ret.individual_projections[k].raw_months >= 0
              /\ TrendOfLabel(ret.individual_projections[k].period_label)
                     \in PositiveTrends

\* the goal is unreached and the only averages are zero or negative
C13_Witness ==
    /\ gp_out.called
    /\ GoalUnreached
    /\ gp_in.trends_raw[1].value = Some(Frac(-500, 1))
    /\ gp_in.trends_raw[2].value = Some(Frac(0, 1))
    /\ gp_in.trends_raw[3].value = Absent
    /\ gp_out.ret.overall_status_message = "Projection N/A (trends are zero or negative)."
    /\ gp_out.ret.individual_projections = <<>>

\* ------------------------------------------------------------------------
\* The change since the previous snapshot
\* ------------------------------------------------------------------------
StatsCalled == st_out.fn = "calculate_summary_stats"

\* the net worth the code compares with: that of the second snapshot passed
PreviousNetWorth == SumOfAllBalances(st_in.all_snapshots[2].balances)

IsInfiniteMarker(x) == x[2] = 0 /\ x[1] \in {-1, 1}

\* C14: with a previous snapshot, change_percentage is change_value /
\* |previous net worth| * 100 when the previous net worth is not 0; when it
\* is 0 and the current net worth is not, the percentage is the infinite
\* marker with the sign of the net worth (the function returns, no division
\* by zero); when both are 0 the percentage is 0.
C14_ChangePercentage ==
    (StatsCalled /\ Len(st_in.all_snapshots) > 1) =>
        LET stats == st_out.stats IN
        /\ PreviousNetWorth # 0 =>
              /\ stats.change_percentage[2] # 0
              /\ stats.change_percentage[1] * Abs(PreviousNetWorth)
                    = stats.change_value * 100 * stats.change_percentage[2]
        /\ (PreviousNetWorth = 0 /\ stats.net_worth # 0) =>
              /\ IsInfiniteMarker(stats.change_percentage)
              /\ (stats.change_percentage[1] > 0) = (stats.net_worth > 0)
        /\ (PreviousNetWorth = 0 /\ stats.net_worth = 0) =>
              FracEq(stats.change_percentage, Frac(0, 1))

\* the previous net worth is 0 and the current one is 1500
C14_Witness ==
    /\ StatsCalled
    /\ Len(st_in.all_snapshots) > 1
    /\ PreviousNetWorth = 0
    /\ st_out.stats.net_worth = 1500
    /\ st_out.stats.change_value = 1500
    /\ IsInfiniteMarker(st_out.stats.change_percentage)

DatesOf(snapshots) == {snapshots[i].date : i \in 1..Len(snapshots)}

\* C15: when the history passed holds fewer than two distinct dates, the
\* result has has_previous_data = false, change_value = 0 and
\* change_percentage = 0.
C15_NoChangeWithoutTwoDates ==
    (StatsCalled /\ Cardinality(DatesOf(st_in.all_snapshots)) < 2) =>
        /\ ~st_out.stats.has_previous_data
        /\ st_out.stats.change_value = 0
        /\ FracEq(st_out.stats.change_percentage, Frac(0, 1))

\* the snapshots after the first whose date is not the first one's
EarlierDated(snapshots) ==
    {i \in 2..Len(snapshots) : snapshots[i].date # snapshots[1].date}

\* C16: for a history ordered newest first, as the app holds it, whose first
\* snapshot is the current one, the change is measured against the nearest
\* following snapshot with a different date: change_value is the net worth
\* of the current balances minus the net worth of that snapshot, and there
\* is no previous data when no snapshot has a different date.
C16_ChangeAgainstDifferentDate ==
    (StatsCalled /\ st_in.all_snapshots # <<>> /\ IsNewestFirst(st_in.all_snapshots)) =>
        LET earlier == EarlierDated(st_in.all_snapshots) IN
        IF earlier = {}
        THEN /\ ~st_out.stats.has_previous_data
             /\ st_out.stats.change_value = 0
        ELSE /\ st_out.stats.has_previous_data
             /\ st_out.stats.change_value =
                   st_out.stats.net_worth
                     - SumOfAllBalances(st_in.all_snapshots[SetMin(earlier)].balances)

\* ------------------------------------------------------------------------
\* Summary statistics of an empty balance list
\* ------------------------------------------------------------------------
\* the outputs computed from the current balances alone
TotalsAreZero(stats) ==
    /\ stats.net_worth = 0
    /\ stats.total_assets_value = 0
    /\ stats.total_debts_value = 0
    /\ stats.liquid_assets_value = 0
    /\ stats.non_liquid_assets_value = 0
    /\ FracEq(stats.liquid_percentage, Frac(0, 1))
    /\ stats.asset_count = 0
    /\ stats.category_count = 0
    /\ stats.top_categories = <<>>

ChangeIsZero(stats) ==
    /\ stats.change_value = 0
    /\ FracEq(stats.change_percentage, Frac(0, 1))

\* C17 as stated: for an empty current balance list every numeric output,
\* the change value and the change percentage included, is 0 whatever the
\* items, categories and snapshot history are.
C17_EverythingZeroWhenEmpty ==
    (StatsCalled /\ st_in.current_snapshot_balances = <<>>) =>
        /\ TotalsAreZero(st_out.stats)
        /\ ChangeIsZero(st_out.stats)

\* C17: for an empty current balance list the function returns with net
\* worth, asset and debt totals, liquid and non-liquid values, liquidity
\* percentage and counts all 0, whatever the other arguments are; the change
\* fields are 0 when the history holds fewer than two snapshots, and
\* otherwise change_value is minus the net worth of the second snapshot.
C17_TotalsZeroWhenEmpty ==
    (StatsCalled /\ st_in.current_snapshot_balances = <<>>) =>
        /\ TotalsAreZero(st_out.stats)
        /\ Len(st_in.all_snapshots) < 2 => ChangeIsZero(st_out.stats)
        /\ Len(st_in.all_snapshots) >= 2 =>
              st_out.stats.change_value = 0 - PreviousNetWorth

\* no balances, and a history whose second snapshot is worth 1000
C17_Witness ==
    /\ StatsCalled
    /\ st_in.current_snapshot_balances = <<>>
    /\ st_in.financial_items # <<>>
    /\ Len(st_in.all_snapshots) = 2
    /\ PreviousNetWorth = 1000
    /\ st_out.stats.change_value = -1000
    /\ TotalsAreZero(st_out.stats)

\* ------------------------------------------------------------------------
\* The data store
\* ------------------------------------------------------------------------
\* the same item, one without a target_balance key coming back with the key
\* holding None
SameItem(loaded, kept) ==
    /\ DOMAIN loaded = DOMAIN kept \cup {"target_balance"}
    /\ \A k \in DOMAIN kept : loaded[k] = kept[k]
    /\ "target_balance" \notin DOMAIN kept => loaded.target_balance = Absent

SameItems(loaded, kept) ==
    /\ Len(loaded) = Len(kept)
    /\ \A i \in 1..Len(kept) : SameItem(loaded[i], kept[i])

\* the snapshots of one date, in the order of the list
OfDate(snapshots, date) == SelectSeq(snapshots, LAMBDA snapshot : snapshot.date = date)

SameBalancesPerDate(loaded, kept) ==
    /\ Len(loaded) = Len(kept)
    /\ \A date \in DatesOf(loaded) \cup DatesOf(kept) :
          OfDate(loaded, date) = OfDate(kept, date)

\* C18: after save_historical_data has written an in-memory model,
\* load_historical_data of the same file returns the same categories, the
\* same items (an item without a target_balance key comes back with
\* target_balance None), the same achieved milestones, the same goal and, per
\* date, the same balances, with the snapshots in descending order of date
\* whatever their order in memory was.
C18_SaveThenLoad ==
    (rt_out.called /\ rt_saved = "written") =>
        /\ rt_out.ret.categories = rt_model.categories
        /\ SameItems(rt_out.ret.financial_items, rt_model.financial_items)
        /\ rt_out.ret.achieved_milestones = rt_model.achieved_milestones
        /\ rt_out.ret.financial_goal = rt_model.financial_goal
        /\ SameBalancesPerDate(rt_out.ret.snapshots, rt_model.snapshots)
        /\ IsNewestFirst(rt_out.ret.snapshots)

\* the model held its two snapshots oldest first and an item without a
\* target_balance key
C18_Witness ==
    /\ rt_out.called
    /\ rt_saved = "written"
    /\ Len(rt_model.snapshots) = 2
    /\ rt_model.snapshots[1].date < rt_model.snapshots[2].date
    /\ rt_out.ret.snapshots[1].date > rt_out.ret.snapshots[2].date
    /\ rt_model.financial_items # <<>>
    /\ "target_balance" \notin DOMAIN rt_model.financial_items[1]
    /\ rt_out.ret.financial_items[1].target_balance = Absent
    /\ rt_model.financial_goal # Absent

\* ------------------------------------------------------------------------
\* Failures of the data file
\* ------------------------------------------------------------------------
\* a file load_historical_data cannot take a document from
Unusable(file) ==
    \/ file.kind \in {"missing", "corrupt", "list"}
    \/ file.kind = "object" /\ ~(RequiredKeys \subseteq file.keys)

\* the titles under which the app tells the user that no data was loaded
LoadWarnings == {"Data Load Warning", "Data Load Error", "New Setup"}

\* C19: when the data file the app starts from is missing, is not valid
\* JSON or lacks one of the keys categories / financial_items / snapshots,
\* the start-up neither fails nor takes data from it (no items, no
\* snapshots, no achieved milestones, no goal) and the user is notified that
\* the load did not succeed.
C19_LoadFailureIsReported ==
    [][(~mounted /\ mounted' /\ Unusable(disk[self'.current_data_file])) =>
          /\ self'.financial_items = <<>>
          /\ self'.snapshots = <<>>
          /\ self'.achieved_milestones = <<>>
          /\ self'.financial_goal = Absent
          /\ \E i \in 1..Len(notifications') : notifications'[i] \in LoadWarnings]_vars

\* C20: when the write of the data file fails during a handler, the user is
\* shown an error, no notification reports the save as successful and an
\* unsaved-changes flag that was set stays set.
C20_SaveFailureIsReported ==
    [][(mounted /\ write_failed') =>
          /\ \A i \in 1..Len(notifications') :
                notifications'[i] \notin {"Save Successful", "Save As Successful",
                                          "New File Created"}
          /\ \E i \in 1..Len(notifications') :
                notifications'[i] \in {"Save Error", "Save As Error"}
          /\ self.unsaved_changes => self'.unsaved_changes]_vars

\* ------------------------------------------------------------------------
\* The snapshot history under balance recordings
\* ------------------------------------------------------------------------
\* no two snapshots of the list carry the same date
DistinctDates(snapshots) ==
    \A i, j \in 1..Len(snapshots) : snapshots[i].date = snapshots[j].date => i = j

\* the snapshots of the list dated otherwise than the given date
OfOtherDates(snapshots, date) ==
    {snapshots[i] : i \in {k \in 1..Len(snapshots) : snapshots[k].date # date}}

\* the handler that ran in this step recorded balances for today
RecordsBalances ==
    /\ events' = events + 1
    /\ \E i \in 1..Len(notifications') : notifications'[i] = "Balances Updated"

\* C21: a balance recording applied to a history with pairwise distinct
\* dates leaves a history with pairwise distinct dates: exactly one snapshot
\* is dated today and holds the recorded balances, the history grows by one
\* snapshot only when today had none, and the snapshots of the other dates
\* are the ones held before.
C21_OneSnapshotPerDate ==
    [][(RecordsBalances /\ DistinctDates(self.snapshots)) =>
          /\ DistinctDates(self'.snapshots)
          /\ \E i \in 1..Len(self'.snapshots) :
                /\ self'.snapshots[i].date = today
                /\ self'.snapshots[i].balances = self'.current_snapshot_balances
          /\ Len(self'.snapshots) =
                IF \E i \in 1..Len(self.snapshots) : self.snapshots[i].date = today
                THEN Len(self.snapshots) ELSE Len(self.snapshots) + 1
          /\ OfOtherDates(self'.snapshots, today) = OfOtherDates(self.snapshots, today)]_vars

\* today's balances have been recorded a second time: the data file still
\* holds the snapshot of today written by the first recording (the write of
\* the second one failed), the app holds other balances for today, and both
\* histories have the same length and an older snapshot
C21_Witness ==
    /\ mounted
    /\ write_failed
    /\ \E i \in 1..Len(notifications) : notifications[i] = "Balances Updated"
    /\ LET on_disk == disk[self.current_data_file].data.snapshots
       IN /\ Len(on_disk) = Len(self.snapshots)
          /\ Len(self.snapshots) >= 2
          /\ \E i \in 1..Len(on_disk), j \in 1..Len(self.snapshots) :
                /\ on_disk[i].date = today
                /\ self.snapshots[j].date = today
                /\ on_disk[i].balances # self.snapshots[j].balances
                /\ on_disk[i].balances # <<>>

\* ------------------------------------------------------------------------
\* The balance entries of the history and the items they refer to
\* ------------------------------------------------------------------------
\* the ids of the items of a list
IdsOf(financial_items) == {financial_items[i].id : i \in 1..Len(financial_items)}

\* every balance entry of the snapshot refers to an item of the list, and no
\* two entries of it carry the same item_id
RefersToItems(snapshot, financial_items) ==
    /\ \A i \in 1..Len(snapshot.balances) :
          snapshot.balances[i].item_id \in IdsOf(financial_items)
    /\ \A i, j \in 1..Len(snapshot.balances) :
          snapshot.balances[i].item_id = snapshot.balances[j].item_id => i = j

\* the item_ids found in the balance entries of a history
IdsInHistory(snapshots) ==
    UNION {{snapshots[k].balances[i].item_id : i \in 1..Len(snapshots[k].balances)} :
              k \in 1..Len(snapshots)}

\* C22: after every handler of the app (item additions, edits and deletions,
\* balance recordings, and the rest) every balance entry of every snapshot
\* refers to an item the app holds and no snapshot holds two entries of one
\* item; in particular an id that the handler removed from the item list is
\* in no balance entry of the history afterwards.
C22_BalancesReferToItems ==
    [][mounted' =>
          /\ \A k \in 1..Len(self'.snapshots) :
                RefersToItems(self'.snapshots[k], self'.financial_items)
          /\ \A id \in IdsOf(self.financial_items) \ IdsOf(self'.financial_items) :
                id \notin IdsInHistory(self'.snapshots)]_vars

\* an item has been deleted while the history held a balance of it: the data
\* file still holds the entry (the write after the deletion failed), the
\* app's history still holds the snapshot but no entry of an item the app
\* does not hold
C22_Witness ==
    /\ mounted
    /\ write_failed
    /\ \E i \in 1..Len(notifications) : notifications[i] = "Asset Management"
    /\ self.snapshots # <<>>
    /\ Len(disk[self.current_data_file].data.snapshots) = Len(self.snapshots)
    /\ \E id \in IdsInHistory(disk[self.current_data_file].data.snapshots) :
          /\ id \in IdsOf(disk[self.current_data_file].data.financial_items)
          /\ id \notin IdsOf(self.financial_items)
          /\ id \notin IdsInHistory(self.snapshots)

\* ------------------------------------------------------------------------
\* The category classifier
\* ------------------------------------------------------------------------
\* the positions of the categories one of whose keywords occurs in the
\* lower-cased name
MatchingCategories ==
    {i \in 1..Len(gc_in.categories_list) :
        \E k \in 1..Len(gc_in.categories_list[i].keywords) :
            IsSubstring(gc_in.categories_list[i].keywords[k], Lower(gc_in.item_name))}

\* C23: guess_category returns the id of the first category of the list
\* that has a keyword occurring in the lower-cased name, and the no-match
\* value exactly when no keyword of any category occurs in it; the result is
\* fixed by the name and the category list.
C23_FirstMatchingCategory ==
    gc_out.called =>
        IF MatchingCategories = {} THEN gc_out.ret = Absent
        ELSE gc_out.ret = Some(gc_in.categories_list[SetMin(MatchingCategories)].id)

\* a name typed with capitals matches keywords of two categories and the
\* earlier category of the list, which is not the first one, is returned
C23_Witness ==
    /\ gc_out.called
    /\ gc_in.item_name # Lower(gc_in.item_name)
    /\ Cardinality(MatchingCategories) = 2
    /\ 1 \notin MatchingCategories
    /\ gc_out.ret = Some(gc_in.categories_list[2].id)

\* ------------------------------------------------------------------------
\* The item list under additions and edits
\* ------------------------------------------------------------------------
\* no two items of the list carry the same name
DistinctNames(financial_items) ==
    \A i, j \in 1..Len(financial_items) :
        financial_items[i].name = financial_items[j].name => i = j

\* every item of the list refers to a category of the category list
RefersToCategories(financial_items, categories) ==
    \A i \in 1..Len(financial_items) :
        financial_items[i].category_id \in CategoryOptions(categories)

\* C24: whatever items were added and edited through the asset management
\* screen, no two items the app holds have the same name and every item's
\* category_id is the id of a category the app holds.
C24_ItemNamesUnique ==
    mounted =>
        /\ DistinctNames(self.financial_items)
        /\ RefersToCategories(self.financial_items, self.categories)

\* the half of C24 about the categories alone
C24_ItemsReferToCategories ==
    mounted => RefersToCategories(self.financial_items, self.categories)


\* ------------------------------------------------------------------------
\* C25: after any sequence of category additions and renames, and in the
\* output of the legacy migration, no two categories have the same id and no
\* two have names that are equal ignoring letter case
\* ------------------------------------------------------------------------
DistinctCategoryIds(categories_list) ==
    \A i, j \in 1..Len(categories_list) :
        categories_list[i].id = categories_list[j].id => i = j

DistinctNamesIgnoringCase(categories_list) ==
    \A i, j \in 1..Len(categories_list) :
        Lower(categories_list[i].name) = Lower(categories_list[j].name) => i = j

C25_CategoriesUnique ==
    lg_out.called =>
        /\ DistinctCategoryIds(lg_categories)
        /\ DistinctNamesIgnoringCase(lg_categories)

\* the ids stay distinct, and an addition or a rename never makes two names
\* equal ignoring case that were not so before
C25_IdsUniqueAndManagementKeepsNames ==
    [][ /\ lg_out'.called => DistinctCategoryIds(lg_categories')
        /\ (lg_out.called /\ DistinctNamesIgnoringCase(lg_categories))
              => DistinctNamesIgnoringCase(lg_categories') ]_vars


\* ------------------------------------------------------------------------
\* C26: the legacy migration produces exactly one FinancialItem per distinct
\* legacy item name, one Category per distinct legacy category name and one
\* Snapshot per legacy record; every balance of a produced snapshot
\* references the id of the produced item with that entry's name, and an
\* item's type is liability exactly when its legacy category is Mortgage,
\* Loan or Credit Card
\* ------------------------------------------------------------------------
LegacyItemNames(old_data_snapshots) ==
    LET entries == AllEntries(old_data_snapshots)
    IN {Val(entries[i].name) : i \in {k \in 1..Len(entries) : IsPresent(entries[k].name)}}

LegacyCategoryNames(old_data_snapshots) ==
    LET entries == AllEntries(old_data_snapshots)
    IN {Val(entries[i].category) :
            i \in {k \in 1..Len(entries) : IsPresent(entries[k].category)}}

\* the objects of a list are named by exactly these names, one object each
OnePerName(objects, names) ==
    /\ \A n \in names : Cardinality({k \in 1..Len(objects) : objects[k].name = n}) = 1
    /\ \A k \in 1..Len(objects) : objects[k].name \in names

\* a snapshot is the legacy record with every entry replaced by the balance
\* of the item of that name
SnapshotOfRecord(snapshot, old_snapshot, financial_items) ==
    /\ snapshot.date = Val(old_snapshot.date)
    /\ Len(snapshot.balances) = Len(old_snapshot.assets)
    /\ \A i \in 1..Len(old_snapshot.assets) :
          /\ IsPresent(old_snapshot.assets[i].balance)
          /\ snapshot.balances[i].balance = Val(old_snapshot.assets[i].balance)
          /\ \E k \in 1..Len(financial_items) :
                /\ Some(financial_items[k].name) = old_snapshot.assets[i].name
                /\ snapshot.balances[i].item_id = financial_items[k].id

\* the category an item got is one its legacy entries name, and decides its
\* type
TypeFromLegacyCategory(item, categories_list, old_data_snapshots) ==
    LET entries == AllEntries(old_data_snapshots)
    IN \E c \in 1..Len(categories_list) :
          /\ categories_list[c].id = item.category_id
          /\ \E i \in 1..Len(entries) :
                /\ entries[i].name = Some(item.name)
                /\ entries[i].category = Some(categories_list[c].name)
          /\ item.type = "liability" <=> categories_list[c].name \in LIABILITY_CATEGORIES
          /\ item.type \in {"asset", "liability"}

MigrationKeepsEverything(old_data_snapshots, ret) ==
    /\ OnePerName(ret.financial_items, LegacyItemNames(old_data_snapshots))
    /\ OnePerName(ret.categories, LegacyCategoryNames(old_data_snapshots))
    /\ Len(ret.snapshots) = Len(old_data_snapshots)
    /\ \A r \in 1..Len(old_data_snapshots) :
          \E s \in 1..Len(ret.snapshots) :
              SnapshotOfRecord(ret.snapshots[s], old_data_snapshots[r], ret.financial_items)
    /\ \A k \in 1..Len(ret.financial_items) :
          TypeFromLegacyCategory(ret.financial_items[k], ret.categories, old_data_snapshots)

C26_MigrationKeepsEverything ==
    lg_out.called => MigrationKeepsEverything(lg_in, lg_out.ret)

\* the same statement for the legacy records whose entries all carry a
\* category
C26_MigrationOfCategorisedEntries ==
    (/\ lg_out.called
     /\ \A i \in 1..Len(AllEntries(lg_in)) : IsPresent(AllEntries(lg_in)[i].category))
        => MigrationKeepsEverything(lg_in, lg_out.ret)


\* ------------------------------------------------------------------------
\* C27: after every successful open-file, new-file or save-as operation the
\* session-preference file records the path of the file that is now the
\* app's current data file (a write of the preference file that fails is
\* swallowed and leaves the earlier record); a cancelled or rejected
\* operation leaves both the recorded path and the current data file
\* unchanged.  A chosen file that cannot be loaded is a rejected open
\* ------------------------------------------------------------------------
\* load_historical_data finds an object with the required keys in the file
Loadable(files, file_path) ==
    files[file_path].kind = "object" /\ RequiredKeys \subseteq files[file_path].keys

Notified(notes, title) == \E i \in 1..Len(notes) : notes[i] = title

RecordsCurrentFile ==
    last_opened_file' \in {Some(self'.current_data_file), last_opened_file}

LeavesFileAndRecord ==
    last_opened_file' = last_opened_file /\ self'.current_data_file = self.current_data_file

C27_PreferenceFollowsCurrentFile ==
    [][ (mounted /\ events' = events + 1) =>
           /\ (\/ Notified(notifications', "Save As Successful")
               \/ Notified(notifications', "New File Created")
               \/ /\ Notified(notifications', "File Opened")
                  /\ Loadable(disk, self'.current_data_file))
                 => RecordsCurrentFile
           /\ (\/ Notified(notifications', "Cancelled")
               \/ Notified(notifications', "File Open Error")
               \/ Notified(notifications', "Save As Error")
               \/ /\ Notified(notifications', "File Opened")
                  /\ ~Loadable(disk, self'.current_data_file))
                 => LeavesFileAndRecord ]_vars

\* the same statement with every open the handler reports as 'File Opened'
\* counted as successful
C27_PreferenceFollowsReportedOutcome ==
    [][ (mounted /\ events' = events + 1) =>
           /\ (\/ Notified(notifications', "Save As Successful")
               \/ Notified(notifications', "New File Created")
               \/ Notified(notifications', "File Opened"))
                 => RecordsCurrentFile
           /\ (\/ Notified(notifications', "Cancelled")
               \/ Notified(notifications', "File Open Error")
               \/ Notified(notifications', "Save As Error"))
                 => LeavesFileAndRecord ]_vars


\* ------------------------------------------------------------------------
\* C28: applying the balance-update screen without changing any value
\* records today's snapshot with exactly the balances that were shown on the
\* screen (one entry per financial item, carried over from today's or the
\* most recent snapshot), so a no-edit apply never changes the current net
\* worth
\* ------------------------------------------------------------------------
\* the balances a recording step leaves hold no value other than the one
\* shown for the item
NoValueChanged(recorded, shown) ==
    \A i \in 1..Len(recorded) : recorded[i].balance = BalanceOf(shown, recorded[i].item_id)

RecordsTheShownBalances(recorded, shown) ==
    /\ recorded = shown
    /\ \E k \in 1..Len(self'.snapshots) :
          self'.snapshots[k].date = today /\ self'.snapshots[k].balances = shown
    /\ DashboardCurrentNetWorth(recorded, self'.financial_items)
          = DashboardCurrentNetWorth(shown, self.financial_items)

C28_NoEditApplyKeepsBalances ==
    [][ (mounted /\ RecordsBalances) =>
           LET shown == ShownBalances(self.financial_items, self.snapshots, today)
               recorded == self'.current_snapshot_balances
           IN NoValueChanged(recorded, shown) => RecordsTheShownBalances(recorded, shown) ]_vars

\* the same statement for the applies that dismiss the screen with its list
\* of balances (is_dirty set)
C28_ApplyOfTheScreenList ==
    [][ (mounted /\ RecordsBalances) =>
           LET shown == ShownBalances(self.financial_items, self.snapshots, today)
               recorded == self'.current_snapshot_balances
           IN (recorded # <<>> /\ NoValueChanged(recorded, shown))
                 => RecordsTheShownBalances(recorded, shown) ]_vars


\* ------------------------------------------------------------------------
\* C29: when the file chosen in the open dialog cannot be loaded (corrupt
\* JSON or missing top-level keys), _handle_open_file_result reports a
\* file-open error and leaves the categories, financial items, snapshots,
\* achieved milestones, goal and current data-file path unchanged
\* ------------------------------------------------------------------------
LeavesTheData ==
    /\ self'.categories = self.categories
    /\ self'.financial_items = self.financial_items
    /\ self'.snapshots = self.snapshots
    /\ self'.achieved_milestones = self.achieved_milestones
    /\ self'.financial_goal = self.financial_goal
    /\ self'.current_data_file = self.current_data_file

\* the open handler has run on a chosen file
OpenHandled ==
    /\ mounted
    /\ events' = events + 1
    /\ Notified(notifications', "File Opened") \/ Notified(notifications', "File Open Error")

C29_UnloadableFileIsRefused ==
    [][ (/\ OpenHandled
         /\ ~(/\ Notified(notifications', "File Opened")
              /\ Loadable(disk, self'.current_data_file)))
           => Notified(notifications', "File Open Error") /\ LeavesTheData ]_vars

\* the refusals the handler does report leave the data as it was
C29_ReportedErrorLeavesData ==
    [][ (OpenHandled /\ Notified(notifications', "File Open Error")) => LeavesTheData ]_vars


\* ------------------------------------------------------------------------
\* C30: every milestone that a dashboard evaluation adds to
\* achieved_milestones is contained in the saved data file by the time the
\* handler that triggered the evaluation has finished (startup load, file
\* open, balance update, item management, goal edit); stated for the
\* handlers whose writes to the data file went through
\* ------------------------------------------------------------------------
\* the milestones the data file of the app holds
SavedMilestones(files, app) ==
    Range(load_historical_data(files, app.current_data_file).achieved_milestones)

\* the handler loaded its data from the current data file before evaluating
LoadedBeforeEvaluating == ~mounted \/ Notified(notifications', "File Opened")

\* the milestones the handler's dashboard evaluation added
MilestonesAdded ==
    Range(self'.achieved_milestones) \
        (IF LoadedBeforeEvaluating THEN SavedMilestones(disk, self')
         ELSE Range(self.achieved_milestones))

C30_AddedMilestonesAreSaved ==
    [][ (/\ events' = events + 1
         /\ Notified(notifications', "Milestone Reached!")
         /\ ~write_failed')
           => MilestonesAdded \subseteq SavedMilestones(disk', self') ]_vars

\* the same statement for the balance update and the item management, which
\* save after the evaluation
C30_SavedAfterBalanceOrItemChange ==
    [][ (/\ events' = events + 1
         /\ Notified(notifications', "Milestone Reached!")
         /\ Notified(notifications', "Balances Updated")
               \/ Notified(notifications', "Asset Management")
         /\ ~write_failed')
           => /\ MilestonesAdded # {}
              /\ MilestonesAdded \subseteq SavedMilestones(disk', self') ]_vars
====
